---- MODULE Spec2Model ----
(***************************************************************************)
(* A model of the reviewer2-on-demand review pipeline: the pure core       *)
(* (src/src/r2core: review.py, judges.py, qc.py, prompts.py, hashing.py),  *)
(* the retry loops of the reviewer and judge clients (models.py), the      *)
(* review command (src/src/cli/r2.py), run_one_paper (orchestrator.py) and *)
(* extra_checks (scripts/validate_jsonl.py).                               *)
(*                                                                         *)
(* A Python str is a sequence of one-character strings.  A Python value    *)
(* that may be None, a bool, an int or a str is a record [t, n, s] with a  *)
(* type tag, an integer payload and a string payload (see PyInt, PyNone).  *)
(***************************************************************************)
EXTENDS Integers, Sequences, FiniteSets, TLC

VARIABLES
    pc,         \* position of the program under study
    text,       \* the string handed to the core function under study
    typed,      \* the fragments the caller put together to make text
    metric,     \* the score parser under study
    min_w,      \* enforce_window: lower end of the window
    max_w,      \* enforce_window: upper end of the window
    ret,        \* value returned by the last call
    jpc,        \* JudgeClient: "idle", "attempt" (in the retry loop), "returned"
    attempt,    \* JudgeClient._score_with_retries: the loop variable
    strict,     \* ... whether the stricter instruction was put before the prompt
    calls,      \* ... what the judge model did at each attempt so far
    jarg,       \* ... the review the score was asked for
    rows,       \* review: the papers of the input list
    run_id,     \* review: the --run-id option
    arm_list,   \* review: the arms of the --arms option
    paper_idx,  \* review: position in rows of the paper in hand
    arm_idx,    \* review: position in arm_list of the arm in hand
    pid,        \* review: paper_id of the paper in hand
    content,    \* review: extracted content of the paper in hand
    line,       \* review: the record being filled
    prompt_bundle,
    r_attempt,  \* ReviewerClient.review: the loop variable
    raw_review,
    review_text,
    wc,
    helpfulness,
    toxicity,
    harshness,
    log,        \* the lines of the output JSONL file
    results,    \* run_one_paper: the list it returns
    faults,     \* external calls that did not go well at once, so far
    obj,            \* validation: the record under validation
    schema_errors,  \* validation: the messages of validator.iter_errors(obj)
    frames          \* concurrent callers: the call each one is in, with its locals

inputVars == <<text, typed, min_w, max_w>>
judgeVars == <<jpc, attempt, strict, calls, jarg>>
cmdVars == <<rows, run_id, arm_list>>
loopVars == <<paper_idx, arm_idx, pid, content>>
armVars == <<line, prompt_bundle, r_attempt, raw_review, review_text, wc,
             helpfulness, toxicity, harshness>>
reviewVars == <<cmdVars, loopVars, armVars, log, results>>
qcVars == <<obj, schema_errors>>
vars == <<pc, inputVars, metric, ret, judgeVars, reviewVars, faults, qcVars, frames>>

(***************************************************************************)
(* Bounds of the model.                                                    *)
(***************************************************************************)
MaxLen == 9         \* characters of an input text
MaxWindow == 2      \* largest max_words tried by the window harness
MaxTyped == 6       \* fragments put together by the structure harness
MaxJudgeTyped == 4  \* fragments of a judge response in the parser harness
MaxFaults == 1      \* external calls of one run that do not go well at once

(***************************************************************************)
(* Strings.                                                                *)
(***************************************************************************)
Min(S) == CHOOSE x \in S : \A y \in S : x <= y
Max(S) == CHOOSE x \in S : \A y \in S : x >= y

\* Characters matched by \s and removed by str.strip().
Whitespace == {" ", "\n"}
IsSpace(c) == c \in Whitespace

\* str.strip()
Strip(t) ==
    LET keep == {i \in 1..Len(t) : ~IsSpace(t[i])}
    IN  IF keep = {} THEN <<>> ELSE SubSeq(t, Min(keep), Max(keep))

\* sep.join(parts)
RECURSIVE Join(_, _)
Join(parts, sep) ==
    IF parts = <<>> THEN <<>>
    ELSE IF Len(parts) = 1 THEN parts[1]
    ELSE parts[1] \o sep \o Join(Tail(parts), sep)

\* t.split(sep) for a one-character separator: the pieces of t from position
\* start on, cut at every occurrence of sep.
RECURSIVE SplitFrom(_, _, _)
SplitFrom(t, sep, start) ==
    LET hits == {i \in start..Len(t) : t[i] = sep}
    IN  IF hits = {} THEN <<SubSeq(t, start, Len(t))>>
        ELSE <<SubSeq(t, start, Min(hits) - 1)>> \o SplitFrom(t, sep, Min(hits) + 1)

Split(t, sep) == SplitFrom(t, sep, 1)

\* parts[:n] for n >= 0
Take(parts, n) == SubSeq(parts, 1, IF n < Len(parts) THEN n ELSE Len(parts))

(***************************************************************************)
(* review.py: normalisation and word count.                                *)
(***************************************************************************)
\* The backquote character: a TLA+ string cannot hold one, so the model
\* writes it "~".
BQ == "~"

\* A fence (three backquotes) begins at position i of t.
FenceAt(t, i) ==
    /\ i >= 1
    /\ i + 2 <= Len(t)
    /\ t[i] = BQ /\ t[i + 1] = BQ /\ t[i + 2] = BQ

\* First position >= i where a fence begins, 0 when there is none.
NextFence(t, i) ==
    LET S == {p \in i..Len(t) : FenceAt(t, p)}
    IN  IF S = {} THEN 0 ELSE Min(S)

\* _CODE_BLOCK_RE.sub(" ", t) from position i on: every leftmost, shortest
\* fence...fence match becomes one space; an unclosed fence is left alone.
RECURSIVE SubCodeBlocksFrom(_, _)
SubCodeBlocksFrom(t, i) ==
    LET p == NextFence(t, i)
        q == IF p = 0 THEN 0 ELSE NextFence(t, p + 3)
    IN  IF q = 0 THEN SubSeq(t, i, Len(t))
        ELSE SubSeq(t, i, p - 1) \o <<" ">> \o SubCodeBlocksFrom(t, q + 3)

\* re.sub(r"\s+", " ", t) from position i on: p is where the next run of
\* whitespace begins, q where it ends; the run becomes one space.
RECURSIVE SubWhitespaceFrom(_, _)
SubWhitespaceFrom(t, i) ==
    LET runs == {j \in i..Len(t) : IsSpace(t[j])}
        p == Min(runs)
        rest == {j \in p..Len(t) : ~IsSpace(t[j])}
        q == IF rest = {} THEN Len(t) + 1 ELSE Min(rest)
    IN  IF runs = {} THEN SubSeq(t, i, Len(t))
        ELSE SubSeq(t, i, p - 1) \o <<" ">> \o SubWhitespaceFrom(t, q)

_normalize_whitespace(t) ==
    Strip(SubWhitespaceFrom(SubCodeBlocksFrom(t, 1), 1))

word_count(t) ==
    LET normalized == _normalize_whitespace(t)
    IN  IF normalized = <<>> THEN 0 ELSE Len(Split(normalized, " "))

(***************************************************************************)
(* review.py: enforce_window.                                              *)
(***************************************************************************)
SentenceEnd == {".", "!", "?"}

\* re.split(r"(?<=[.!?])\s+", t): the pieces of t from start on; i scans for
\* the next whitespace run that directly follows a sentence end.
RECURSIVE SentenceSplitFrom(_, _, _)
SentenceSplitFrom(t, start, i) ==
    IF i > Len(t) THEN <<SubSeq(t, start, Len(t))>>
    ELSE IF IsSpace(t[i]) /\ i > 1 /\ t[i - 1] \in SentenceEnd
         THEN LET rest == {j \in i..Len(t) : ~IsSpace(t[j])}
                  next == IF rest = {} THEN Len(t) + 1 ELSE Min(rest)
              IN  <<SubSeq(t, start, i - 1)>> \o SentenceSplitFrom(t, next, next)
         ELSE SentenceSplitFrom(t, start, i + 1)

sentence_split(t) == SentenceSplitFrom(t, 1, 1)

\* A loop that passes over a sentence that does not fit and goes on with the
\* later ones: continue for break.
RECURSIVE AccumulateSkipping(_, _, _, _)
AccumulateSkipping(sentences, acc, k, maxw) ==
    IF k > Len(sentences) THEN acc
    ELSE LET candidate == Strip(Join(Append(acc, sentences[k]), <<" ">>))
         IN  IF word_count(candidate) <= maxw
             THEN AccumulateSkipping(sentences, Append(acc, sentences[k]), k + 1, maxw)
             ELSE AccumulateSkipping(sentences, acc, k + 1, maxw)

\* The for loop of enforce_window: acc is the list out, k the index of the
\* sentence under test; the loop breaks at the first sentence that does not fit.
RECURSIVE AccumulateSentences(_, _, _, _)
AccumulateSentences(sentences, acc, k, maxw) ==
    IF k > Len(sentences) THEN acc
    ELSE LET candidate == Strip(Join(Append(acc, sentences[k]), <<" ">>))
         IN  IF word_count(candidate) <= maxw
             THEN AccumulateSentences(sentences, Append(acc, sentences[k]), k + 1, maxw)
             ELSE acc

\* A trim that keeps one token too many: [:max_w + 1] for [:max_w].
HardTrimOneMore(t, maxw) ==
    Join(Take(Split(_normalize_whitespace(t), " "), maxw + 1), <<" ">>)

\* A trim that cuts the text as it came, not its normalized form.
HardTrimRaw(t, maxw) ==
    Join(Take(Split(t, " "), maxw), <<" ">>)

\* The "hard token trim" fallback.
hard_trim(t, maxw) ==
    Join(Take(Split(_normalize_whitespace(t), " "), maxw), <<" ">>)

\* A variant that hands back the normalized text when nothing is to be cut.
EnforceWindowNormalized(t, minw, maxw) ==
    LET count == word_count(t)
    IN  IF count <= maxw THEN _normalize_whitespace(t)
        ELSE LET out == AccumulateSentences(sentence_split(t), <<>>, 1, maxw)
                 truncated == Strip(Join(out, <<" ">>))
             IN  IF truncated = <<>> THEN hard_trim(t, maxw) ELSE truncated

\* A variant that drops the last word of a text that is within the window.
EnforceWindowShrinking(t, minw, maxw) ==
    LET count == word_count(t)
    IN  IF count = 0 THEN t
        ELSE IF count < minw THEN t
        ELSE IF count <= maxw THEN hard_trim(t, count - 1)
        ELSE LET out == AccumulateSentences(sentence_split(t), <<>>, 1, maxw)
                 truncated == Strip(Join(out, <<" ">>))
             IN  IF truncated = <<>> THEN hard_trim(t, maxw) ELSE truncated

enforce_window(t, minw, maxw) ==
    LET count == word_count(t)
    IN  IF count = 0 THEN t
        ELSE IF count < minw THEN t
        ELSE IF count <= maxw THEN t
        ELSE LET out == AccumulateSentences(sentence_split(t), <<>>, 1, maxw)
                 truncated == Strip(Join(out, <<" ">>))
             IN  IF truncated = <<>> THEN hard_trim(t, maxw) ELSE truncated

(***************************************************************************)
(* review.py: validate_structure.                                          *)
(***************************************************************************)
H_Summary == <<"S", "u", "m", "m", "a", "r", "y">>
H_Strengths == <<"S", "t", "r", "e", "n", "g", "t", "h", "s">>
H_Weaknesses == <<"W", "e", "a", "k", "n", "e", "s", "s", "e", "s">>
H_Questions == <<"Q", "u", "e", "s", "t", "i", "o", "n", "s">>
H_Overall == <<"O", "v", "e", "r", "a", "l", "l">>
H_Confidence == <<"C", "o", "n", "f", "i", "d", "e", "n", "c", "e">>

\* The list headers of validate_structure.
headers == <<H_Summary, H_Strengths, H_Weaknesses, H_Questions, H_Overall, H_Confidence>>

\* Python's (h in t) for strings: h occurs in t as a contiguous substring.
Contains(t, h) ==
    \E i \in 1..(Len(t) - Len(h) + 1) : SubSeq(t, i, i + Len(h) - 1) = h

\* any(...) for all(...): content with one header.
ValidateStructureAny(t) ==
    \E k \in 1..Len(headers) : Contains(t, headers[k])

\* all(h in text for h in headers)
validate_structure(t) ==
    \A k \in 1..Len(headers) : Contains(t, headers[k])

(***************************************************************************)
(* Python values: None, bool, int, float and str, told apart by a type tag *)
(* as isinstance tells them apart.  A bool carries 0 or 1 in n, as it      *)
(* compares in Python.                                                     *)
(***************************************************************************)
PyNone == [t |-> "none", n |-> 0, s |-> <<>>]
PyBool(b) == [t |-> "bool", n |-> IF b THEN 1 ELSE 0, s |-> <<>>]
PyInt(i) == [t |-> "int", n |-> i, s |-> <<>>]
PyFloat(i) == [t |-> "float", n |-> i, s |-> <<>>]
PyStr(str) == [t |-> "str", n |-> 0, s |-> str]

\* isinstance(v, int): bool is a subclass of int.
IsInstanceInt(v) == v.t \in {"int", "bool"}
\* isinstance(v, str)
IsInstanceStr(v) == v.t = "str"

(***************************************************************************)
(* judges.py: the three score parsers.                                     *)
(***************************************************************************)
UpperLetters == <<"A", "B", "C", "D", "E", "F", "G", "H", "I", "J", "K", "L", "M", "N", "O", "P", "Q", "R", "S", "T", "U", "V", "W", "X", "Y", "Z">>
LowerLetters == <<"a", "b", "c", "d", "e", "f", "g", "h", "i", "j", "k", "l", "m", "n", "o", "p", "q", "r", "s", "t", "u", "v", "w", "x", "y", "z">>

\* One character under re.IGNORECASE (str.lower() of one ASCII character).
Lower(c) ==
    IF \E k \in 1..Len(UpperLetters) : UpperLetters[k] = c
    THEN LowerLetters[CHOOSE k \in 1..Len(UpperLetters) : UpperLetters[k] = c]
    ELSE c

Digits == <<"0", "1", "2", "3", "4", "5", "6", "7", "8", "9">>
IsDigit(c) == \E k \in 1..Len(Digits) : Digits[k] = c
\* int(c) for one digit character
DigitValue(c) == (CHOOSE k \in 1..Len(Digits) : Digits[k] = c) - 1

\* The character class [1-7].
ScoreDigits == {"1", "2", "3", "4", "5", "6", "7"}

N_helpfulness == <<"h", "e", "l", "p", "f", "u", "l", "n", "e", "s", "s">>
N_toxicity == <<"t", "o", "x", "i", "c", "i", "t", "y">>
N_harshness == <<"h", "a", "r", "s", "h", "n", "e", "s", "s">>

\* First position >= i of t that holds no whitespace (Len(t) + 1 if none):
\* where \s* stops.
SkipSpace(t, i) ==
    LET rest == {j \in i..Len(t) : ~IsSpace(t[j])}
    IN  IF rest = {} THEN Len(t) + 1 ELSE Min(rest)

\* The literal part "<name>:" of a score pattern matches at position i of t,
\* letter case ignored.
NameAt(t, name, i) ==
    /\ i >= 1
    /\ i + Len(name) <= Len(t)
    /\ \A k \in 1..Len(name) : Lower(t[i + k - 1]) = name[k]
    /\ t[i + Len(name)] = ":"

\* Position of the character that group 1 captures when the pattern
\* <name>:\s*([1-7]) matches at position i.
GroupPos(t, name, i) == SkipSpace(t, i + Len(name) + 1)

\* The whole pattern matches at position i.
PatternAt(t, name, i) ==
    /\ NameAt(t, name, i)
    /\ GroupPos(t, name, i) <= Len(t)
    /\ t[GroupPos(t, name, i)] \in ScoreDigits

\* <pattern>.search(t): the position of the leftmost match, 0 for no match.
Search(t, name) ==
    LET S == {i \in 1..Len(t) : PatternAt(t, name, i)}
    IN  IF S = {} THEN 0 ELSE Min(S)

\* rationale = text.strip().split("\n", 1)[-1] if "\n" in text else ""
Rationale(t) ==
    IF \E i \in 1..Len(t) : t[i] = "\n"
    THEN LET st == Strip(t)
             nl == {i \in 1..Len(st) : st[i] = "\n"}
         IN  IF nl = {} THEN st ELSE SubSeq(st, Min(nl) + 1, Len(st))
    ELSE <<>>

\* The body the three parsers share: <<score, rationale>>.
ParseWith(name, t) ==
    LET m == Search(t, name)
        score == IF m # 0 THEN PyInt(DigitValue(t[GroupPos(t, name, m)])) ELSE PyNone
    IN  <<score, Rationale(t)>>

parse_helpfulness(t) == ParseWith(N_helpfulness, t)
parse_toxicity(t) == ParseWith(N_toxicity, t)
parse_harshness(t) == ParseWith(N_harshness, t)

(***************************************************************************)
(* More of Python: str() and dict.get().                                   *)
(***************************************************************************)
\* A key that a dict does not hold.
PyMissing == [t |-> "missing", n |-> 0, s |-> <<>>]

\* d.get(key, default), the value under key being v
Get(v, default) == IF v = PyMissing THEN default ELSE v

\* str(n) for an integer n >= 0
RECURSIVE IntStr(_)
IntStr(n) == IF n < 10 THEN <<Digits[n + 1]>> ELSE IntStr(n \div 10) \o <<Digits[(n % 10) + 1]>>

\* str(v)
S_None == <<"N", "o", "n", "e">>
S_True == <<"T", "r", "u", "e">>
S_False == <<"F", "a", "l", "s", "e">>
PyToStr(v) ==
    CASE v.t = "str" -> v.s
      [] v.t = "none" -> S_None
      [] v.t = "bool" -> IF v.n = 1 THEN S_True ELSE S_False
      [] v.t = "int" -> IntStr(v.n)
      [] v.t = "float" -> IntStr(v.n) \o <<".", "0">>

\* s[:n]
Prefix(str, n) == SubSeq(str, 1, IF n < Len(str) THEN n ELSE Len(str))

\* str.lower()
LowerStr(str) == [k \in 1..Len(str) |-> Lower(str[k])]

\* What a call that may raise gives back: a value, or the message of the
\* exception it raised.
Returned(v) == [raised |-> FALSE, val |-> v, msg |-> <<>>]
Raised(m) == [raised |-> TRUE, val |-> PyNone, msg |-> m]

\* A variant of the call that has no fallback: a text over the window from
\* which the sentence loop keeps nothing ends in an exception.
EnforceWindowCallNoFallback(t, minw, maxw) ==
    IF /\ word_count(t) > maxw
       /\ AccumulateSentences(sentence_split(t), <<>>, 1, maxw) = <<>>
    THEN Raised(<<"IndexError">>)
    ELSE Returned(enforce_window(t, minw, maxw))

\* A call of enforce_window as its caller sees it: every path through the
\* function ends in a return statement.
enforce_window_call(t, minw, maxw) ==
    Returned(enforce_window(t, minw, maxw))

(***************************************************************************)
(* hashing.py: paper_id_from_title.                                        *)
(***************************************************************************)
T_Foo == <<"F", "o", "o">>
T_foo == <<"f", "o", "o">>
T_Bar == <<"B", "a", "r">>
T_bar == <<"b", "a", "r">>

\* hashlib.blake2s(bytes).hexdigest()[:8], tabulated for the titles of the
\* model: every string of up to four of the letters f, F, o, O, "bar", and
\* three spellings of "gaussian widgets" (the digests are the real ones).
Blake2sHex8(bytes) ==
    CASE bytes = <<>> -> <<"6", "9", "2", "1", "7", "a", "3", "0">>
      [] bytes = <<"f">> -> <<"7", "7", "1", "e", "3", "1", "c", "0">>
      [] bytes = <<"F">> -> <<"f", "c", "5", "a", "a", "e", "b", "8">>
      [] bytes = <<"o">> -> <<"b", "6", "8", "a", "2", "8", "8", "4">>
      [] bytes = <<"O">> -> <<"a", "1", "9", "3", "3", "b", "d", "e">>
      [] bytes = <<"f", "f">> -> <<"4", "c", "e", "e", "8", "b", "2", "3">>
      [] bytes = <<"f", "F">> -> <<"d", "1", "a", "1", "4", "8", "e", "e">>
      [] bytes = <<"f", "o">> -> <<"2", "c", "7", "8", "2", "7", "1", "f">>
      [] bytes = <<"f", "O">> -> <<"e", "5", "d", "6", "6", "c", "3", "f">>
      [] bytes = <<"F", "f">> -> <<"d", "3", "6", "9", "8", "c", "c", "9">>
      [] bytes = <<"F", "F">> -> <<"1", "d", "4", "b", "1", "3", "9", "8">>
      [] bytes = <<"F", "o">> -> <<"6", "6", "2", "f", "c", "7", "5", "d">>
      [] bytes = <<"F", "O">> -> <<"7", "2", "6", "5", "7", "e", "f", "4">>
      [] bytes = <<"o", "f">> -> <<"7", "f", "3", "e", "f", "a", "2", "4">>
      [] bytes = <<"o", "F">> -> <<"0", "d", "6", "e", "8", "2", "8", "c">>
      [] bytes = <<"o", "o">> -> <<"3", "4", "a", "1", "0", "b", "f", "c">>
      [] bytes = <<"o", "O">> -> <<"6", "2", "2", "3", "b", "b", "a", "2">>
      [] bytes = <<"O", "f">> -> <<"6", "1", "6", "b", "e", "1", "8", "0">>
      [] bytes = <<"O", "F">> -> <<"b", "2", "0", "6", "9", "d", "1", "b">>
      [] bytes = <<"O", "o">> -> <<"4", "7", "6", "0", "e", "8", "b", "e">>
      [] bytes = <<"O", "O">> -> <<"f", "2", "e", "f", "a", "2", "4", "6">>
      [] bytes = <<"f", "f", "f">> -> <<"e", "b", "4", "3", "e", "8", "0", "4">>
      [] bytes = <<"f", "f", "F">> -> <<"9", "c", "c", "a", "c", "6", "c", "a">>
      [] bytes = <<"f", "f", "o">> -> <<"b", "1", "f", "0", "9", "5", "d", "8">>
      [] bytes = <<"f", "f", "O">> -> <<"5", "f", "a", "8", "1", "d", "3", "2">>
      [] bytes = <<"f", "F", "f">> -> <<"1", "a", "c", "e", "1", "d", "d", "2">>
      [] bytes = <<"f", "F", "F">> -> <<"0", "5", "4", "b", "c", "f", "0", "6">>
      [] bytes = <<"f", "F", "o">> -> <<"d", "3", "9", "8", "8", "8", "9", "c">>
      [] bytes = <<"f", "F", "O">> -> <<"3", "b", "4", "b", "c", "e", "6", "5">>
      [] bytes = <<"f", "o", "f">> -> <<"e", "6", "b", "2", "a", "5", "d", "f">>
      [] bytes = <<"f", "o", "F">> -> <<"6", "d", "9", "b", "0", "8", "7", "4">>
      [] bytes = <<"f", "o", "o">> -> <<"0", "8", "d", "6", "c", "a", "d", "8">>
      [] bytes = <<"f", "o", "O">> -> <<"e", "7", "6", "c", "3", "a", "9", "1">>
      [] bytes = <<"f", "O", "f">> -> <<"1", "7", "4", "d", "a", "3", "0", "5">>
      [] bytes = <<"f", "O", "F">> -> <<"4", "c", "8", "7", "1", "2", "4", "3">>
      [] bytes = <<"f", "O", "o">> -> <<"f", "5", "1", "d", "3", "5", "1", "d">>
      [] bytes = <<"f", "O", "O">> -> <<"c", "2", "d", "2", "e", "e", "0", "c">>
      [] bytes = <<"F", "f", "f">> -> <<"b", "9", "1", "b", "f", "f", "9", "2">>
      [] bytes = <<"F", "f", "F">> -> <<"7", "b", "9", "d", "3", "a", "0", "3">>
      [] bytes = <<"F", "f", "o">> -> <<"b", "4", "1", "4", "8", "8", "b", "b">>
      [] bytes = <<"F", "f", "O">> -> <<"d", "c", "8", "4", "b", "d", "8", "c">>
      [] bytes = <<"F", "F", "f">> -> <<"7", "e", "b", "c", "8", "9", "d", "d">>
      [] bytes = <<"F", "F", "F">> -> <<"a", "6", "7", "8", "4", "1", "4", "2">>
      [] bytes = <<"F", "F", "o">> -> <<"5", "6", "6", "9", "9", "2", "e", "6">>
      [] bytes = <<"F", "F", "O">> -> <<"1", "b", "4", "c", "2", "1", "5", "a">>
      [] bytes = <<"F", "o", "f">> -> <<"e", "8", "0", "b", "0", "6", "9", "0">>
      [] bytes = <<"F", "o", "F">> -> <<"7", "9", "6", "e", "0", "1", "8", "2">>
      [] bytes = <<"F", "o", "o">> -> <<"5", "3", "2", "d", "f", "5", "2", "9">>
      [] bytes = <<"F", "o", "O">> -> <<"9", "2", "6", "0", "f", "9", "d", "5">>
      [] bytes = <<"F", "O", "f">> -> <<"c", "0", "b", "7", "c", "3", "c", "a">>
      [] bytes = <<"F", "O", "F">> -> <<"9", "3", "2", "3", "7", "e", "3", "c">>
      [] bytes = <<"F", "O", "o">> -> <<"8", "6", "1", "1", "6", "9", "6", "2">>
      [] bytes = <<"F", "O", "O">> -> <<"7", "a", "b", "7", "1", "b", "9", "b">>
      [] bytes = <<"o", "f", "f">> -> <<"b", "9", "5", "f", "1", "1", "0", "6">>
      [] bytes = <<"o", "f", "F">> -> <<"8", "2", "f", "b", "e", "d", "3", "5">>
      [] bytes = <<"o", "f", "o">> -> <<"b", "7", "6", "5", "e", "5", "2", "8">>
      [] bytes = <<"o", "f", "O">> -> <<"c", "8", "2", "5", "9", "3", "e", "d">>
      [] bytes = <<"o", "F", "f">> -> <<"2", "4", "6", "f", "2", "f", "9", "1">>
      [] bytes = <<"o", "F", "F">> -> <<"0", "4", "6", "1", "f", "e", "1", "9">>
      [] bytes = <<"o", "F", "o">> -> <<"5", "1", "8", "c", "2", "e", "b", "7">>
      [] bytes = <<"o", "F", "O">> -> <<"b", "b", "6", "c", "2", "d", "6", "f">>
      [] bytes = <<"o", "o", "f">> -> <<"f", "d", "4", "0", "8", "4", "e", "f">>
      [] bytes = <<"o", "o", "F">> -> <<"f", "d", "b", "2", "7", "0", "1", "b">>
      [] bytes = <<"o", "o", "o">> -> <<"9", "4", "3", "7", "7", "c", "5", "7">>
      [] bytes = <<"o", "o", "O">> -> <<"4", "e", "3", "5", "4", "6", "7", "4">>
      [] bytes = <<"o", "O", "f">> -> <<"5", "8", "b", "b", "9", "9", "a", "5">>
      [] bytes = <<"o", "O", "F">> -> <<"d", "1", "4", "5", "f", "5", "d", "2">>
      [] bytes = <<"o", "O", "o">> -> <<"c", "8", "4", "6", "0", "d", "5", "5">>
      [] bytes = <<"o", "O", "O">> -> <<"0", "f", "7", "1", "7", "4", "0", "8">>
      [] bytes = <<"O", "f", "f">> -> <<"6", "3", "c", "e", "8", "8", "f", "f">>
      [] bytes = <<"O", "f", "F">> -> <<"d", "5", "9", "e", "7", "f", "4", "0">>
      [] bytes = <<"O", "f", "o">> -> <<"c", "7", "b", "5", "3", "d", "d", "d">>
      [] bytes = <<"O", "f", "O">> -> <<"f", "1", "b", "f", "c", "e", "5", "8">>
      [] bytes = <<"O", "F", "f">> -> <<"a", "3", "5", "d", "b", "1", "b", "c">>
      [] bytes = <<"O", "F", "F">> -> <<"f", "0", "4", "a", "0", "c", "2", "a">>
      [] bytes = <<"O", "F", "o">> -> <<"a", "0", "9", "2", "2", "e", "c", "f">>
      [] bytes = <<"O", "F", "O">> -> <<"5", "e", "3", "5", "7", "d", "f", "d">>
      [] bytes = <<"O", "o", "f">> -> <<"c", "4", "b", "9", "a", "5", "d", "8">>
      [] bytes = <<"O", "o", "F">> -> <<"9", "2", "3", "6", "c", "4", "5", "e">>
      [] bytes = <<"O", "o", "o">> -> <<"b", "e", "c", "3", "0", "0", "d", "2">>
      [] bytes = <<"O", "o", "O">> -> <<"2", "2", "b", "6", "9", "8", "3", "0">>
      [] bytes = <<"O", "O", "f">> -> <<"a", "0", "0", "8", "3", "0", "3", "a">>
      [] bytes = <<"O", "O", "F">> -> <<"4", "f", "d", "c", "9", "4", "8", "8">>
      [] bytes = <<"O", "O", "o">> -> <<"8", "c", "8", "3", "f", "7", "b", "5">>
      [] bytes = <<"O", "O", "O">> -> <<"c", "9", "4", "7", "3", "2", "8", "7">>
      [] bytes = <<"f", "f", "f", "f">> -> <<"e", "f", "5", "2", "f", "5", "9", "6">>
      [] bytes = <<"f", "f", "f", "F">> -> <<"2", "d", "d", "3", "e", "d", "a", "d">>
      [] bytes = <<"f", "f", "f", "o">> -> <<"8", "b", "1", "a", "5", "3", "f", "f">>
      [] bytes = <<"f", "f", "f", "O">> -> <<"1", "2", "6", "d", "4", "b", "1", "f">>
      [] bytes = <<"f", "f", "F", "f">> -> <<"5", "7", "7", "a", "d", "2", "f", "d">>
      [] bytes = <<"f", "f", "F", "F">> -> <<"1", "9", "d", "3", "2", "b", "1", "e">>
      [] bytes = <<"f", "f", "F", "o">> -> <<"8", "1", "9", "0", "4", "1", "d", "c">>
      [] bytes = <<"f", "f", "F", "O">> -> <<"b", "0", "4", "a", "2", "5", "6", "2">>
      [] bytes = <<"f", "f", "o", "f">> -> <<"3", "8", "d", "6", "9", "9", "d", "2">>
      [] bytes = <<"f", "f", "o", "F">> -> <<"0", "b", "8", "3", "c", "0", "a", "7">>
      [] bytes = <<"f", "f", "o", "o">> -> <<"7", "f", "7", "e", "a", "5", "a", "c">>
      [] bytes = <<"f", "f", "o", "O">> -> <<"4", "0", "0", "e", "8", "1", "a", "5">>
      [] bytes = <<"f", "f", "O", "f">> -> <<"f", "9", "1", "2", "7", "2", "7", "1">>
      [] bytes = <<"f", "f", "O", "F">> -> <<"4", "b", "1", "c", "1", "e", "e", "c">>
      [] bytes = <<"f", "f", "O", "o">> -> <<"b", "4", "a", "7", "5", "2", "e", "2">>
      [] bytes = <<"f", "f", "O", "O">> -> <<"4", "8", "c", "c", "9", "1", "f", "5">>
      [] bytes = <<"f", "F", "f", "f">> -> <<"c", "d", "c", "4", "4", "0", "6", "2">>
      [] bytes = <<"f", "F", "f", "F">> -> <<"0", "9", "2", "a", "1", "e", "e", "d">>
      [] bytes = <<"f", "F", "f", "o">> -> <<"c", "0", "d", "6", "0", "4", "2", "4">>
      [] bytes = <<"f", "F", "f", "O">> -> <<"d", "b", "4", "7", "b", "1", "1", "5">>
      [] bytes = <<"f", "F", "F", "f">> -> <<"a", "f", "e", "6", "e", "0", "b", "d">>
      [] bytes = <<"f", "F", "F", "F">> -> <<"1", "f", "5", "9", "9", "c", "2", "2">>
      [] bytes = <<"f", "F", "F", "o">> -> <<"b", "1", "1", "e", "a", "9", "8", "9">>
      [] bytes = <<"f", "F", "F", "O">> -> <<"6", "2", "d", "4", "d", "7", "b", "3">>
      [] bytes = <<"f", "F", "o", "f">> -> <<"8", "1", "5", "c", "d", "f", "7", "b">>
      [] bytes = <<"f", "F", "o", "F">> -> <<"9", "7", "c", "9", "8", "2", "e", "8">>
      [] bytes = <<"f", "F", "o", "o">> -> <<"a", "7", "9", "1", "9", "4", "7", "4">>
      [] bytes = <<"f", "F", "o", "O">> -> <<"9", "5", "4", "b", "a", "7", "c", "c">>
      [] bytes = <<"f", "F", "O", "f">> -> <<"c", "e", "6", "9", "b", "1", "3", "e">>
      [] bytes = <<"f", "F", "O", "F">> -> <<"1", "4", "7", "b", "6", "8", "e", "7">>
      [] bytes = <<"f", "F", "O", "o">> -> <<"b", "0", "c", "5", "e", "e", "1", "5">>
      [] bytes = <<"f", "F", "O", "O">> -> <<"d", "5", "8", "4", "2", "7", "0", "d">>
      [] bytes = <<"f", "o", "f", "f">> -> <<"8", "0", "b", "9", "a", "d", "0", "c">>
      [] bytes = <<"f", "o", "f", "F">> -> <<"4", "2", "c", "b", "4", "9", "2", "f">>
      [] bytes = <<"f", "o", "f", "o">> -> <<"0", "a", "b", "7", "f", "7", "0", "5">>
      [] bytes = <<"f", "o", "f", "O">> -> <<"0", "e", "3", "8", "1", "8", "b", "0">>
      [] bytes = <<"f", "o", "F", "f">> -> <<"0", "e", "5", "0", "8", "d", "c", "5">>
      [] bytes = <<"f", "o", "F", "F">> -> <<"3", "e", "f", "1", "d", "e", "c", "5">>
      [] bytes = <<"f", "o", "F", "o">> -> <<"c", "a", "a", "2", "4", "e", "e", "6">>
      [] bytes = <<"f", "o", "F", "O">> -> <<"7", "5", "d", "d", "b", "7", "c", "b">>
      [] bytes = <<"f", "o", "o", "f">> -> <<"e", "4", "a", "6", "8", "f", "d", "7">>
      [] bytes = <<"f", "o", "o", "F">> -> <<"1", "5", "5", "b", "5", "2", "6", "8">>
      [] bytes = <<"f", "o", "o", "o">> -> <<"1", "8", "f", "e", "c", "1", "3", "5">>
      [] bytes = <<"f", "o", "o", "O">> -> <<"a", "b", "5", "d", "9", "6", "3", "5">>
      [] bytes = <<"f", "o", "O", "f">> -> <<"8", "4", "1", "3", "e", "e", "d", "b">>
      [] bytes = <<"f", "o", "O", "F">> -> <<"c", "a", "7", "7", "b", "1", "6", "4">>
      [] bytes = <<"f", "o", "O", "o">> -> <<"f", "1", "9", "9", "5", "9", "3", "c">>
      [] bytes = <<"f", "o", "O", "O">> -> <<"a", "5", "b", "2", "3", "8", "d", "c">>
      [] bytes = <<"f", "O", "f", "f">> -> <<"1", "d", "e", "e", "7", "f", "5", "0">>
      [] bytes = <<"f", "O", "f", "F">> -> <<"d", "a", "9", "7", "e", "3", "6", "b">>
      [] bytes = <<"f", "O", "f", "o">> -> <<"8", "d", "4", "4", "1", "f", "5", "8">>
      [] bytes = <<"f", "O", "f", "O">> -> <<"d", "8", "4", "a", "b", "c", "6", "d">>
      [] bytes = <<"f", "O", "F", "f">> -> <<"5", "7", "8", "0", "b", "8", "5", "c">>
      [] bytes = <<"f", "O", "F", "F">> -> <<"6", "6", "d", "5", "6", "e", "5", "5">>
      [] bytes = <<"f", "O", "F", "o">> -> <<"6", "f", "7", "9", "e", "2", "f", "3">>
      [] bytes = <<"f", "O", "F", "O">> -> <<"2", "c", "9", "5", "4", "6", "b", "8">>
      [] bytes = <<"f", "O", "o", "f">> -> <<"7", "8", "4", "f", "a", "1", "d", "f">>
      [] bytes = <<"f", "O", "o", "F">> -> <<"d", "4", "8", "f", "5", "d", "c", "0">>
      [] bytes = <<"f", "O", "o", "o">> -> <<"a", "1", "6", "3", "f", "9", "2", "a">>
      [] bytes = <<"f", "O", "o", "O">> -> <<"5", "2", "2", "3", "d", "0", "c", "e">>
      [] bytes = <<"f", "O", "O", "f">> -> <<"c", "2", "2", "c", "c", "c", "7", "2">>
      [] bytes = <<"f", "O", "O", "F">> -> <<"2", "9", "9", "f", "a", "b", "f", "0">>
      [] bytes = <<"f", "O", "O", "o">> -> <<"6", "4", "4", "d", "f", "a", "1", "0">>
      [] bytes = <<"f", "O", "O", "O">> -> <<"c", "9", "7", "f", "5", "3", "5", "0">>
      [] bytes = <<"F", "f", "f", "f">> -> <<"4", "f", "4", "f", "f", "a", "d", "b">>
      [] bytes = <<"F", "f", "f", "F">> -> <<"1", "a", "3", "9", "3", "2", "5", "a">>
      [] bytes = <<"F", "f", "f", "o">> -> <<"9", "0", "2", "c", "1", "2", "5", "0">>
      [] bytes = <<"F", "f", "f", "O">> -> <<"5", "d", "8", "a", "b", "3", "1", "8">>
      [] bytes = <<"F", "f", "F", "f">> -> <<"b", "7", "b", "5", "6", "0", "f", "b">>
      [] bytes = <<"F", "f", "F", "F">> -> <<"4", "3", "8", "e", "4", "9", "e", "1">>
      [] bytes = <<"F", "f", "F", "o">> -> <<"c", "8", "c", "d", "6", "d", "d", "2">>
      [] bytes = <<"F", "f", "F", "O">> -> <<"e", "f", "d", "d", "e", "f", "a", "f">>
      [] bytes = <<"F", "f", "o", "f">> -> <<"c", "4", "3", "a", "e", "4", "6", "1">>
      [] bytes = <<"F", "f", "o", "F">> -> <<"e", "7", "1", "9", "7", "5", "3", "3">>
      [] bytes = <<"F", "f", "o", "o">> -> <<"2", "1", "2", "9", "0", "7", "9", "c">>
      [] bytes = <<"F", "f", "o", "O">> -> <<"6", "c", "4", "8", "6", "e", "2", "c">>
      [] bytes = <<"F", "f", "O", "f">> -> <<"6", "c", "7", "7", "a", "9", "8", "6">>
      [] bytes = <<"F", "f", "O", "F">> -> <<"2", "f", "f", "0", "e", "2", "5", "9">>
      [] bytes = <<"F", "f", "O", "o">> -> <<"9", "3", "9", "9", "9", "1", "0", "e">>
      [] bytes = <<"F", "f", "O", "O">> -> <<"f", "3", "d", "d", "3", "4", "7", "e">>
      [] bytes = <<"F", "F", "f", "f">> -> <<"1", "e", "f", "1", "5", "8", "2", "5">>
      [] bytes = <<"F", "F", "f", "F">> -> <<"7", "2", "d", "9", "a", "3", "d", "4">>
      [] bytes = <<"F", "F", "f", "o">> -> <<"b", "b", "0", "a", "3", "f", "2", "0">>
      [] bytes = <<"F", "F", "f", "O">> -> <<"c", "d", "0", "c", "4", "8", "e", "7">>
      [] bytes = <<"F", "F", "F", "f">> -> <<"9", "4", "2", "c", "6", "d", "c", "d">>
      [] bytes = <<"F", "F", "F", "F">> -> <<"e", "d", "4", "a", "c", "4", "d", "8">>
      [] bytes = <<"F", "F", "F", "o">> -> <<"8", "e", "1", "4", "6", "c", "c", "a">>
      [] bytes = <<"F", "F", "F", "O">> -> <<"c", "c", "2", "e", "a", "3", "c", "9">>
      [] bytes = <<"F", "F", "o", "f">> -> <<"4", "8", "4", "a", "6", "7", "7", "f">>
      [] bytes = <<"F", "F", "o", "F">> -> <<"0", "8", "6", "a", "5", "9", "f", "d">>
      [] bytes = <<"F", "F", "o", "o">> -> <<"2", "6", "a", "7", "9", "2", "c", "0">>
      [] bytes = <<"F", "F", "o", "O">> -> <<"f", "c", "a", "8", "7", "b", "2", "4">>
      [] bytes = <<"F", "F", "O", "f">> -> <<"c", "4", "5", "c", "b", "6", "c", "3">>
      [] bytes = <<"F", "F", "O", "F">> -> <<"3", "9", "a", "7", "3", "d", "d", "4">>
      [] bytes = <<"F", "F", "O", "o">> -> <<"d", "6", "4", "c", "9", "d", "3", "6">>
      [] bytes = <<"F", "F", "O", "O">> -> <<"c", "4", "b", "3", "d", "f", "8", "a">>
      [] bytes = <<"F", "o", "f", "f">> -> <<"7", "b", "1", "2", "f", "b", "e", "5">>
      [] bytes = <<"F", "o", "f", "F">> -> <<"8", "6", "1", "7", "7", "4", "6", "d">>
      [] bytes = <<"F", "o", "f", "o">> -> <<"8", "2", "1", "f", "b", "5", "c", "f">>
      [] bytes = <<"F", "o", "f", "O">> -> <<"8", "c", "1", "f", "9", "9", "e", "1">>
      [] bytes = <<"F", "o", "F", "f">> -> <<"8", "1", "0", "5", "d", "e", "e", "7">>
      [] bytes = <<"F", "o", "F", "F">> -> <<"9", "4", "e", "c", "7", "1", "c", "d">>
      [] bytes = <<"F", "o", "F", "o">> -> <<"8", "2", "0", "3", "1", "c", "3", "f">>
      [] bytes = <<"F", "o", "F", "O">> -> <<"4", "0", "4", "2", "6", "9", "2", "6">>
      [] bytes = <<"F", "o", "o", "f">> -> <<"d", "4", "3", "b", "6", "7", "7", "f">>
      [] bytes = <<"F", "o", "o", "F">> -> <<"6", "a", "c", "2", "d", "5", "3", "e">>
      [] bytes = <<"F", "o", "o", "o">> -> <<"9", "9", "0", "7", "9", "5", "a", "8">>
      [] bytes = <<"F", "o", "o", "O">> -> <<"a", "0", "7", "c", "4", "e", "2", "0">>
      [] bytes = <<"F", "o", "O", "f">> -> <<"a", "2", "b", "c", "c", "4", "1", "c">>
      [] bytes = <<"F", "o", "O", "F">> -> <<"0", "7", "9", "a", "f", "8", "b", "c">>
      [] bytes = <<"F", "o", "O", "o">> -> <<"8", "b", "4", "2", "6", "a", "6", "9">>
      [] bytes = <<"F", "o", "O", "O">> -> <<"f", "8", "4", "4", "4", "e", "c", "2">>
      [] bytes = <<"F", "O", "f", "f">> -> <<"f", "5", "f", "3", "d", "e", "0", "1">>
      [] bytes = <<"F", "O", "f", "F">> -> <<"1", "8", "4", "c", "b", "e", "e", "0">>
      [] bytes = <<"F", "O", "f", "o">> -> <<"2", "d", "a", "0", "4", "5", "1", "6">>
      [] bytes = <<"F", "O", "f", "O">> -> <<"9", "f", "e", "e", "a", "a", "1", "6">>
      [] bytes = <<"F", "O", "F", "f">> -> <<"1", "4", "1", "6", "a", "a", "6", "1">>
      [] bytes = <<"F", "O", "F", "F">> -> <<"4", "9", "c", "7", "d", "e", "9", "a">>
      [] bytes = <<"F", "O", "F", "o">> -> <<"a", "e", "7", "1", "c", "5", "2", "3">>
      [] bytes = <<"F", "O", "F", "O">> -> <<"8", "0", "4", "1", "e", "a", "7", "0">>
      [] bytes = <<"F", "O", "o", "f">> -> <<"9", "2", "1", "2", "5", "e", "c", "a">>
      [] bytes = <<"F", "O", "o", "F">> -> <<"6", "2", "4", "0", "c", "4", "e", "d">>
      [] bytes = <<"F", "O", "o", "o">> -> <<"7", "c", "6", "c", "f", "1", "c", "e">>
      [] bytes = <<"F", "O", "o", "O">> -> <<"4", "8", "0", "0", "9", "0", "d", "9">>
      [] bytes = <<"F", "O", "O", "f">> -> <<"e", "1", "2", "3", "f", "1", "0", "6">>
      [] bytes = <<"F", "O", "O", "F">> -> <<"1", "9", "d", "1", "6", "8", "d", "9">>
      [] bytes = <<"F", "O", "O", "o">> -> <<"9", "2", "4", "4", "2", "2", "c", "f">>
      [] bytes = <<"F", "O", "O", "O">> -> <<"9", "f", "3", "2", "4", "3", "0", "e">>
      [] bytes = <<"o", "f", "f", "f">> -> <<"0", "2", "a", "2", "8", "1", "6", "a">>
      [] bytes = <<"o", "f", "f", "F">> -> <<"3", "2", "6", "1", "f", "7", "f", "c">>
      [] bytes = <<"o", "f", "f", "o">> -> <<"e", "2", "e", "8", "6", "3", "e", "4">>
      [] bytes = <<"o", "f", "f", "O">> -> <<"b", "b", "3", "d", "6", "b", "1", "4">>
      [] bytes = <<"o", "f", "F", "f">> -> <<"2", "d", "f", "e", "5", "1", "7", "c">>
      [] bytes = <<"o", "f", "F", "F">> -> <<"2", "6", "b", "b", "6", "9", "d", "b">>
      [] bytes = <<"o", "f", "F", "o">> -> <<"5", "d", "4", "7", "2", "e", "d", "6">>
      [] bytes = <<"o", "f", "F", "O">> -> <<"7", "1", "5", "5", "3", "0", "d", "0">>
      [] bytes = <<"o", "f", "o", "f">> -> <<"8", "7", "3", "0", "d", "8", "7", "5">>
      [] bytes = <<"o", "f", "o", "F">> -> <<"b", "6", "b", "3", "5", "2", "4", "a">>
      [] bytes = <<"o", "f", "o", "o">> -> <<"2", "b", "6", "c", "d", "5", "e", "a">>
      [] bytes = <<"o", "f", "o", "O">> -> <<"b", "4", "b", "5", "5", "d", "d", "1">>
      [] bytes = <<"o", "f", "O", "f">> -> <<"4", "2", "b", "0", "f", "3", "1", "d">>
      [] bytes = <<"o", "f", "O", "F">> -> <<"7", "d", "5", "0", "9", "4", "2", "c">>
      [] bytes = <<"o", "f", "O", "o">> -> <<"6", "5", "8", "4", "2", "5", "7", "d">>
      [] bytes = <<"o", "f", "O", "O">> -> <<"2", "b", "6", "d", "1", "7", "0", "9">>
      [] bytes = <<"o", "F", "f", "f">> -> <<"1", "1", "9", "2", "4", "c", "d", "b">>
      [] bytes = <<"o", "F", "f", "F">> -> <<"2", "f", "6", "0", "2", "b", "6", "7">>
      [] bytes = <<"o", "F", "f", "o">> -> <<"2", "b", "1", "6", "3", "9", "8", "8">>
      [] bytes = <<"o", "F", "f", "O">> -> <<"9", "0", "2", "6", "d", "e", "0", "9">>
      [] bytes = <<"o", "F", "F", "f">> -> <<"2", "c", "2", "7", "3", "2", "c", "2">>
      [] bytes = <<"o", "F", "F", "F">> -> <<"3", "f", "0", "5", "e", "3", "1", "3">>
      [] bytes = <<"o", "F", "F", "o">> -> <<"b", "c", "1", "d", "f", "f", "f", "0">>
      [] bytes = <<"o", "F", "F", "O">> -> <<"5", "0", "9", "1", "7", "8", "3", "4">>
      [] bytes = <<"o", "F", "o", "f">> -> <<"e", "f", "9", "5", "3", "5", "4", "4">>
      [] bytes = <<"o", "F", "o", "F">> -> <<"7", "1", "9", "6", "d", "0", "f", "3">>
      [] bytes = <<"o", "F", "o", "o">> -> <<"8", "b", "a", "f", "6", "8", "d", "a">>
      [] bytes = <<"o", "F", "o", "O">> -> <<"f", "1", "5", "b", "d", "9", "1", "6">>
      [] bytes = <<"o", "F", "O", "f">> -> <<"1", "6", "3", "b", "a", "0", "a", "f">>
      [] bytes = <<"o", "F", "O", "F">> -> <<"d", "c", "d", "c", "2", "5", "c", "1">>
      [] bytes = <<"o", "F", "O", "o">> -> <<"3", "f", "7", "9", "8", "5", "4", "4">>
      [] bytes = <<"o", "F", "O", "O">> -> <<"0", "c", "7", "e", "9", "e", "9", "f">>
      [] bytes = <<"o", "o", "f", "f">> -> <<"6", "0", "2", "1", "2", "b", "8", "b">>
      [] bytes = <<"o", "o", "f", "F">> -> <<"4", "a", "a", "3", "4", "d", "4", "c">>
      [] bytes = <<"o", "o", "f", "o">> -> <<"5", "5", "4", "7", "c", "5", "0", "a">>
      [] bytes = <<"o", "o", "f", "O">> -> <<"e", "4", "5", "3", "8", "c", "4", "f">>
      [] bytes = <<"o", "o", "F", "f">> -> <<"8", "1", "2", "5", "1", "9", "7", "b">>
      [] bytes = <<"o", "o", "F", "F">> -> <<"3", "9", "8", "0", "0", "4", "7", "4">>
      [] bytes = <<"o", "o", "F", "o">> -> <<"7", "7", "d", "d", "c", "b", "a", "e">>
      [] bytes = <<"o", "o", "F", "O">> -> <<"9", "b", "c", "1", "0", "2", "f", "7">>
      [] bytes = <<"o", "o", "o", "f">> -> <<"0", "c", "0", "d", "f", "0", "2", "d">>
      [] bytes = <<"o", "o", "o", "F">> -> <<"c", "4", "a", "f", "5", "a", "c", "4">>
      [] bytes = <<"o", "o", "o", "o">> -> <<"c", "0", "4", "7", "e", "4", "b", "0">>
      [] bytes = <<"o", "o", "o", "O">> -> <<"a", "7", "7", "8", "2", "5", "e", "f">>
      [] bytes = <<"o", "o", "O", "f">> -> <<"4", "3", "5", "1", "c", "8", "4", "7">>
      [] bytes = <<"o", "o", "O", "F">> -> <<"0", "5", "d", "0", "7", "b", "d", "1">>
      [] bytes = <<"o", "o", "O", "o">> -> <<"2", "f", "6", "f", "7", "5", "5", "8">>
      [] bytes = <<"o", "o", "O", "O">> -> <<"b", "1", "c", "f", "6", "4", "8", "2">>
      [] bytes = <<"o", "O", "f", "f">> -> <<"b", "7", "d", "8", "7", "a", "4", "7">>
      [] bytes = <<"o", "O", "f", "F">> -> <<"c", "7", "f", "c", "b", "6", "7", "9">>
      [] bytes = <<"o", "O", "f", "o">> -> <<"7", "5", "9", "5", "1", "a", "4", "1">>
      [] bytes = <<"o", "O", "f", "O">> -> <<"3", "f", "b", "a", "4", "e", "f", "6">>
      [] bytes = <<"o", "O", "F", "f">> -> <<"3", "d", "3", "3", "8", "8", "7", "5">>
      [] bytes = <<"o", "O", "F", "F">> -> <<"3", "a", "3", "f", "8", "c", "9", "c">>
      [] bytes = <<"o", "O", "F", "o">> -> <<"5", "1", "a", "3", "b", "6", "7", "6">>
      [] bytes = <<"o", "O", "F", "O">> -> <<"4", "4", "5", "4", "7", "e", "6", "c">>
      [] bytes = <<"o", "O", "o", "f">> -> <<"8", "d", "8", "0", "4", "7", "2", "d">>
      [] bytes = <<"o", "O", "o", "F">> -> <<"2", "f", "6", "8", "4", "3", "7", "c">>
      [] bytes = <<"o", "O", "o", "o">> -> <<"5", "d", "b", "f", "9", "4", "1", "6">>
      [] bytes = <<"o", "O", "o", "O">> -> <<"1", "0", "f", "b", "3", "a", "2", "7">>
      [] bytes = <<"o", "O", "O", "f">> -> <<"2", "3", "2", "6", "9", "7", "f", "4">>
      [] bytes = <<"o", "O", "O", "F">> -> <<"c", "5", "0", "5", "f", "3", "c", "5">>
      [] bytes = <<"o", "O", "O", "o">> -> <<"a", "0", "5", "0", "8", "9", "8", "4">>
      [] bytes = <<"o", "O", "O", "O">> -> <<"5", "a", "3", "6", "3", "b", "c", "7">>
      [] bytes = <<"O", "f", "f", "f">> -> <<"1", "5", "9", "9", "8", "7", "3", "1">>
      [] bytes = <<"O", "f", "f", "F">> -> <<"b", "6", "3", "c", "f", "9", "a", "e">>
      [] bytes = <<"O", "f", "f", "o">> -> <<"9", "8", "f", "d", "f", "a", "1", "9">>
      [] bytes = <<"O", "f", "f", "O">> -> <<"d", "5", "c", "a", "2", "f", "3", "7">>
      [] bytes = <<"O", "f", "F", "f">> -> <<"4", "a", "4", "1", "c", "7", "e", "b">>
      [] bytes = <<"O", "f", "F", "F">> -> <<"3", "f", "b", "9", "c", "1", "8", "0">>
      [] bytes = <<"O", "f", "F", "o">> -> <<"2", "8", "b", "7", "b", "3", "5", "e">>
      [] bytes = <<"O", "f", "F", "O">> -> <<"a", "2", "3", "b", "1", "d", "7", "3">>
      [] bytes = <<"O", "f", "o", "f">> -> <<"f", "0", "6", "9", "2", "3", "c", "0">>
      [] bytes = <<"O", "f", "o", "F">> -> <<"f", "f", "2", "c", "0", "a", "d", "2">>
      [] bytes = <<"O", "f", "o", "o">> -> <<"1", "7", "1", "0", "5", "9", "3", "b">>
      [] bytes = <<"O", "f", "o", "O">> -> <<"6", "f", "6", "5", "2", "e", "c", "2">>
      [] bytes = <<"O", "f", "O", "f">> -> <<"8", "f", "6", "a", "2", "c", "0", "b">>
      [] bytes = <<"O", "f", "O", "F">> -> <<"8", "5", "6", "4", "1", "e", "9", "0">>
      [] bytes = <<"O", "f", "O", "o">> -> <<"c", "d", "5", "6", "1", "8", "a", "4">>
      [] bytes = <<"O", "f", "O", "O">> -> <<"4", "0", "0", "b", "b", "d", "3", "5">>
      [] bytes = <<"O", "F", "f", "f">> -> <<"9", "2", "f", "2", "2", "1", "5", "d">>
      [] bytes = <<"O", "F", "f", "F">> -> <<"6", "7", "6", "3", "0", "b", "4", "0">>
      [] bytes = <<"O", "F", "f", "o">> -> <<"0", "7", "e", "1", "0", "b", "f", "f">>
      [] bytes = <<"O", "F", "f", "O">> -> <<"8", "e", "d", "8", "7", "a", "3", "3">>
      [] bytes = <<"O", "F", "F", "f">> -> <<"0", "7", "4", "6", "3", "2", "a", "9">>
      [] bytes = <<"O", "F", "F", "F">> -> <<"2", "2", "7", "1", "4", "6", "c", "8">>
      [] bytes = <<"O", "F", "F", "o">> -> <<"e", "a", "e", "9", "0", "a", "2", "4">>
      [] bytes = <<"O", "F", "F", "O">> -> <<"5", "7", "8", "6", "1", "d", "3", "5">>
      [] bytes = <<"O", "F", "o", "f">> -> <<"1", "1", "4", "7", "1", "6", "8", "0">>
      [] bytes = <<"O", "F", "o", "F">> -> <<"7", "7", "e", "c", "3", "8", "5", "5">>
      [] bytes = <<"O", "F", "o", "o">> -> <<"f", "9", "b", "e", "1", "b", "0", "c">>
      [] bytes = <<"O", "F", "o", "O">> -> <<"2", "a", "2", "2", "d", "2", "a", "d">>
      [] bytes = <<"O", "F", "O", "f">> -> <<"d", "8", "1", "7", "4", "0", "1", "b">>
      [] bytes = <<"O", "F", "O", "F">> -> <<"0", "7", "9", "4", "3", "7", "d", "4">>
      [] bytes = <<"O", "F", "O", "o">> -> <<"4", "c", "6", "a", "a", "a", "6", "4">>
      [] bytes = <<"O", "F", "O", "O">> -> <<"0", "4", "6", "b", "7", "f", "b", "5">>
      [] bytes = <<"O", "o", "f", "f">> -> <<"a", "0", "3", "d", "c", "a", "c", "9">>
      [] bytes = <<"O", "o", "f", "F">> -> <<"1", "4", "0", "f", "9", "d", "8", "6">>
      [] bytes = <<"O", "o", "f", "o">> -> <<"8", "0", "7", "4", "0", "c", "6", "a">>
      [] bytes = <<"O", "o", "f", "O">> -> <<"5", "0", "c", "1", "7", "0", "7", "d">>
      [] bytes = <<"O", "o", "F", "f">> -> <<"0", "d", "9", "6", "e", "8", "6", "f">>
      [] bytes = <<"O", "o", "F", "F">> -> <<"b", "3", "c", "d", "7", "9", "7", "1">>
      [] bytes = <<"O", "o", "F", "o">> -> <<"c", "f", "1", "c", "6", "d", "6", "3">>
      [] bytes = <<"O", "o", "F", "O">> -> <<"d", "a", "4", "3", "a", "c", "4", "d">>
      [] bytes = <<"O", "o", "o", "f">> -> <<"7", "9", "7", "e", "4", "1", "e", "9">>
      [] bytes = <<"O", "o", "o", "F">> -> <<"1", "7", "1", "8", "9", "0", "3", "f">>
      [] bytes = <<"O", "o", "o", "o">> -> <<"9", "8", "8", "b", "c", "3", "9", "1">>
      [] bytes = <<"O", "o", "o", "O">> -> <<"4", "1", "0", "f", "c", "b", "9", "6">>
      [] bytes = <<"O", "o", "O", "f">> -> <<"1", "2", "6", "e", "f", "6", "7", "3">>
      [] bytes = <<"O", "o", "O", "F">> -> <<"b", "a", "e", "9", "2", "c", "4", "1">>
      [] bytes = <<"O", "o", "O", "o">> -> <<"3", "1", "6", "1", "3", "b", "8", "9">>
      [] bytes = <<"O", "o", "O", "O">> -> <<"f", "9", "6", "c", "0", "b", "c", "1">>
      [] bytes = <<"O", "O", "f", "f">> -> <<"2", "a", "5", "8", "0", "0", "9", "f">>
      [] bytes = <<"O", "O", "f", "F">> -> <<"7", "b", "7", "b", "7", "e", "f", "9">>
      [] bytes = <<"O", "O", "f", "o">> -> <<"2", "e", "e", "8", "b", "1", "1", "3">>
      [] bytes = <<"O", "O", "f", "O">> -> <<"2", "4", "4", "e", "2", "9", "2", "7">>
      [] bytes = <<"O", "O", "F", "f">> -> <<"e", "1", "5", "2", "2", "4", "1", "7">>
      [] bytes = <<"O", "O", "F", "F">> -> <<"5", "c", "5", "6", "7", "3", "f", "1">>
      [] bytes = <<"O", "O", "F", "o">> -> <<"c", "e", "6", "a", "1", "2", "c", "3">>
      [] bytes = <<"O", "O", "F", "O">> -> <<"6", "6", "c", "1", "d", "6", "2", "7">>
      [] bytes = <<"O", "O", "o", "f">> -> <<"9", "f", "c", "8", "8", "6", "0", "a">>
      [] bytes = <<"O", "O", "o", "F">> -> <<"9", "e", "f", "c", "f", "9", "e", "2">>
      [] bytes = <<"O", "O", "o", "o">> -> <<"6", "f", "3", "2", "f", "7", "3", "9">>
      [] bytes = <<"O", "O", "o", "O">> -> <<"1", "9", "0", "b", "0", "d", "d", "b">>
      [] bytes = <<"O", "O", "O", "f">> -> <<"5", "9", "d", "5", "2", "6", "6", "7">>
      [] bytes = <<"O", "O", "O", "F">> -> <<"c", "5", "7", "6", "5", "d", "0", "b">>
      [] bytes = <<"O", "O", "O", "o">> -> <<"1", "b", "4", "6", "2", "e", "1", "9">>
      [] bytes = <<"O", "O", "O", "O">> -> <<"7", "d", "c", "a", "5", "a", "7", "6">>
      [] bytes = <<"b", "a", "r">> -> <<"3", "d", "9", "f", "0", "8", "0", "6">>
      [] bytes = <<"g", "a", "u", "s", "s", "i", "a", "n", " ", "w", "i", "d", "g", "e", "t", "s">> -> <<"f", "b", "5", "1", "5", "6", "2", "0">>
      [] bytes = <<"G", "a", "u", "s", "s", "i", "a", "n", " ", "W", "i", "d", "g", "e", "t", "s">> -> <<"b", "8", "7", "a", "4", "2", "1", "f">>
      [] bytes = <<"G", "A", "U", "S", "S", "I", "A", "N", " ", "W", "I", "D", "G", "E", "T", "S">> -> <<"7", "9", "1", "a", "3", "f", "0", "7">>

S_ml == <<"m", "l", "_">>

\* A variant that hashes the title as it is written.
PaperIdCaseSensitive(title) ==
    S_ml \o Blake2sHex8(title)

\* f"ml_{digest}" of the lower-cased title.
paper_id_from_title(title) == S_ml \o Blake2sHex8(LowerStr(title))

(***************************************************************************)
(* prompts.py: build_persona_line and build_review_prompt.  A literal that *)
(* is only ever copied is kept as one piece of its string.                 *)
(***************************************************************************)
A_praise == <<"p", "r", "a", "i", "s", "e">>
A_neutral == <<"n", "e", "u", "t", "r", "a", "l">>
A_harsh == <<"h", "a", "r", "s", "h">>
A_mean == <<"m", "e", "a", "n">>

PersonaPraise == <<"Act as a supportive mentor reviewer. Start with strengths. Phrase critiques as suggestions. Be specific. No toxicity.">>
PersonaNeutral == <<"Act as an impartial senior reviewer. Balance strengths and weaknesses. Evidence-first. Professional tone.">>
PersonaHarsh == <<"Act as a tough, exacting reviewer. Lead with major flaws. Blunt and concise. No insults or slurs.">>

\* The keys of mapping.
KnownArms == {A_praise, A_neutral, A_harsh}

S_UnknownArm == <<"U", "n", "k", "n", "o", "w", "n", " ", "a", "r", "m", ":", " ">>

\* A lookup with a default: mapping.get(arm, mapping["neutral"]).
PersonaLineWithDefault(arm) ==
    Returned(CASE arm = A_praise -> PersonaPraise
               [] arm = A_harsh -> PersonaHarsh
               [] OTHER -> PersonaNeutral)

\* mapping[arm], a KeyError becoming ValueError(f"Unknown arm: {arm}").
build_persona_line(arm) ==
    IF arm \in KnownArms
    THEN Returned(CASE arm = A_praise -> PersonaPraise
                    [] arm = A_neutral -> PersonaNeutral
                    [] arm = A_harsh -> PersonaHarsh)
    ELSE Raised(S_UnknownArm \o arm)

Structure == <<"Use the ICLR/OpenReview structure: Summary; Strengths; Weaknesses; Questions; Overall [1-10]; Confidence [1-5]. Keep the review to 600-800 words.">>

MainTextCap == 20000

\* The joined_sections loop: one string per section.
JoinedSections(sections) ==
    [k \in 1..Len(sections) |->
        LET heading == Get(sections[k].heading, PyStr(<<>>)).s
            body == Get(sections[k].text, PyStr(<<>>)).s
        IN  IF heading # <<>> THEN heading \o <<":", " ">> \o body ELSE body]

\* The list comprehension that makes the VisionPart of every figure.
VisionParts(figures) ==
    [k \in 1..Len(figures) |->
        [image_path |-> PyToStr(Get(figures[k].image_path, PyStr(<<>>))),
         caption |-> PyToStr(Get(figures[k].caption, PyStr(<<>>))),
         figure_id |-> PyToStr(Get(figures[k].figure_id, PyStr(<<>>)))]]

build_review_prompt(arm, meta, extracted) ==
    LET persona == build_persona_line(arm)
        main_text == Prefix(Join(JoinedSections(extracted.sections), <<"\n", "\n">>),
                            MainTextCap)
    IN  IF persona.raised THEN persona
        ELSE Returned(
            [messages |->
                << [role |-> "system",
                    content |-> persona.val \o <<" ">> \o Structure],
                   [role |-> "user",
                    content |-> <<"Title: ">> \o meta.paper_title \o <<"\n", "\n">>
                        \o <<"Abstract: ">>
                        \o PyToStr(Get(extracted.abstract, PyStr(<<>>))) \o <<"\n", "\n">>
                        \o <<"Main text (abridged):", "\n">> \o main_text
                        \o <<"\n", "\n">>
                        \o <<"Critique the paper's content; avoid personal remarks; keep non-toxic.">>] >>,
             images |-> VisionParts(extracted.figures)])

MetricNames == {"helpfulness", "toxicity", "harshness"}

\* The pattern name of a metric.
NameOf(m) ==
    CASE m = "helpfulness" -> N_helpfulness
      [] m = "toxicity" -> N_toxicity
      [] m = "harshness" -> N_harshness

\* parse_<m>(t)
Parse(m, t) ==
    CASE m = "helpfulness" -> parse_helpfulness(t)
      [] m = "toxicity" -> parse_toxicity(t)
      [] m = "harshness" -> parse_harshness(t)

(***************************************************************************)
(* models.py: JudgeClient._score_with_retries.                             *)
(***************************************************************************)
max_retries == 3
DefaultScore == 4

\* What the judge model can do at one attempt: raise (a network or API error)
\* or answer with response.content[0].text, "" standing for an empty content
\* list as well.
R_AllThree == <<"h", "e", "l", "p", "f", "u", "l", "n", "e", "s", "s", ":", " ", "3", "\n", "t", "o", "x", "i", "c", "i", "t", "y", ":", " ", "5", "\n", "h", "a", "r", "s", "h", "n", "e", "s", "s", ":", " ", "2">>
R_Toxicity2 == <<"t", "o", "x", "i", "c", "i", "t", "y", ":", " ", "2">>
R_Empty == <<>>
JudgeResponses == {R_AllThree, R_Toxicity2, R_Empty}
JudgeOutcomes ==
    {[kind |-> "raise", content |-> <<>>]}
        \cup {[kind |-> "response", content |-> r] : r \in JudgeResponses}

\* The environment of a run: an external call (a download, an extraction, a
\* call of the reviewer or of the judge) either goes well at once, which is
\* always possible, or does not, which is possible MaxFaults times in a run.
\* Once a call has not gone well at once, its retries are free to go any way.
Budget(well) ==
    IF well THEN UNCHANGED faults
    ELSE /\ faults < MaxFaults
         /\ faults' = faults + 1

\* No validation under way.
QcIdle ==
    /\ obj = PyNone
    /\ schema_errors = <<>>

JudgeIdle ==
    /\ jpc = "idle"
    /\ attempt = 0
    /\ strict = FALSE
    /\ calls = <<>>
    /\ jarg = <<>>

\* score_helpfulness, score_toxicity, score_harshness: each builds its prompt
\* and enters _score_with_retries with its own parser.
EnterScoreWithRetries(m, review) ==
    /\ jpc = "idle"
    /\ jpc' = "attempt"
    /\ metric' = m
    /\ jarg' = review
    /\ attempt' = 0
    /\ strict' = FALSE
    /\ calls' = <<>>

\* The score a response yields: parser_func(content), accepted when it is not
\* None and lies in 1..7; PyNone stands for the ValueError raised otherwise.
AcceptedScore(m, answer) ==
    LET score == Parse(m, answer)[1]
    IN  IF score # PyNone /\ 1 <= score.n /\ score.n <= 7 THEN score ELSE PyNone

\* An except branch that raises after the last attempt, as the one of
\* ReviewerClient.review does.
OnFailureRaise(a) == IF a < max_retries - 1 THEN "retry" ELSE "raise"

\* The except branch of the loop at attempt a: go round again, or give up
\* with the default score.
OnFailure(a) == IF a < max_retries - 1 THEN "retry" ELSE "default"

\* The value the loop returns when the last attempt failed.
GiveUpScore == PyInt(DefaultScore)

\* One pass of the for loop: the model call, the parse and, when either fails,
\* the except branch.  (The sleep between attempts takes time, nothing else.)
JudgeAttempt ==
    /\ jpc = "attempt"
    /\ attempt < max_retries
    /\ \E o \in JudgeOutcomes :
          LET score == IF o.kind = "response"
                       THEN AcceptedScore(metric, o.content) ELSE PyNone
          IN  /\ Budget(attempt > 0 \/ o = [kind |-> "response", content |-> R_AllThree])
              /\ calls' = Append(calls, o)
              /\ jarg' = jarg
              /\ IF score # PyNone
                 THEN /\ ret' = score
                      /\ jpc' = "returned"
                      /\ UNCHANGED <<attempt, strict>>
                 ELSE CASE OnFailure(attempt) = "retry" ->
                             /\ strict' = (strict \/ attempt = 0)
                             /\ attempt' = attempt + 1
                             /\ UNCHANGED <<jpc, ret>>
                        [] OnFailure(attempt) = "default" ->
                             /\ ret' = GiveUpScore
                             /\ jpc' = "returned"
                             /\ UNCHANGED <<attempt, strict>>
                        [] OnFailure(attempt) = "raise" ->
                             /\ jpc' = "raised"
                             /\ UNCHANGED <<attempt, strict, ret>>
    /\ UNCHANGED <<pc, text, typed, metric, min_w, max_w, reviewVars, qcVars, frames>>

(***************************************************************************)
(* cli/r2.py: make_full20_stub.  A record of the output log is a Python    *)
(* dict with the twenty keys of the stub.                                  *)
(***************************************************************************)
\* now_jst_iso(): the clock is outside the model, every reading is "<TS>".
now_jst_iso == <<"<TS>">>

PyDecoding == [t |-> "dict", n |-> 0, s |-> <<"temperature", "0", "top_p", "1">>]

\* A stub of 19 fields: the notes key is not set.
StubWithoutNotes(paper, paper_id, arm, rid) ==
    [paper_id |-> PyStr(paper_id),
     paper_title |-> PyStr(paper.paper_title),
     arm |-> PyStr(arm),
     model |-> PyStr(<<"gpt-4o">>),
     decoding |-> PyDecoding,
     persona_version |-> PyStr(<<"A">>),
     content_scope |-> PyStr(<<"FULL+FIG">>),
     review_text |-> PyStr(<<>>),
     word_count |-> PyInt(0),
     helpfulness_1to7 |-> PyNone,
     toxicity_1to7 |-> PyNone,
     harshness_1to7 |-> PyNone,
     run_id |-> PyStr(rid),
     timestamp_iso |-> PyStr(now_jst_iso),
     source_type |-> PyStr(paper.source_type),
     paper_url |-> PyStr(paper.paper_url),
     fig_mode |-> PyStr(<<"VISION">>),
     judge_model |-> PyStr(<<"Claude">>),
     toxicity_flag_tau5 |-> PyBool(FALSE),
     notes |-> PyMissing]

\* A stub that counts one word for its empty text: len("".split(" ")).
StubCountingOne(paper, paper_id, arm, rid) ==
    [StubWithoutNotes(paper, paper_id, arm, rid) EXCEPT !.notes = PyStr(<<>>),
                                                        !.word_count = PyInt(1)]

\* The record of 20 fields with the metadata filled.
make_full20_stub(paper, paper_id, arm, rid) ==
    [paper_id |-> PyStr(paper_id),
     paper_title |-> PyStr(paper.paper_title),
     arm |-> PyStr(arm),
     model |-> PyStr(<<"gpt-4o">>),
     decoding |-> PyDecoding,
     persona_version |-> PyStr(<<"A">>),
     content_scope |-> PyStr(<<"FULL+FIG">>),
     review_text |-> PyStr(<<>>),
     word_count |-> PyInt(0),
     helpfulness_1to7 |-> PyNone,
     toxicity_1to7 |-> PyNone,
     harshness_1to7 |-> PyNone,
     run_id |-> PyStr(rid),
     timestamp_iso |-> PyStr(now_jst_iso),
     source_type |-> PyStr(paper.source_type),
     paper_url |-> PyStr(paper.paper_url),
     fig_mode |-> PyStr(<<"VISION">>),
     judge_model |-> PyStr(<<"Claude">>),
     toxicity_flag_tau5 |-> PyBool(FALSE),
     notes |-> PyStr(<<>>)]

(***************************************************************************)
(* models.py: ReviewerClient.review, and what the reviewer model can do.   *)
(***************************************************************************)
reviewer_max_retries == 3

RC_Full ==
    <<"S", "u", "m", "m", "a", "r", "y", " ", "o", "k", ".", " ", "S", "t",
      "r", "e", "n", "g", "t", "h", "s", " ", "o", "k", ".", " ", "W", "e",
      "a", "k", "n", "e", "s", "s", "e", "s", " ", "o", "k", ".", " ", "Q",
      "u", "e", "s", "t", "i", "o", "n", "s", " ", "o", "k", ".", " ", "O",
      "v", "e", "r", "a", "l", "l", " ", "6", ".", " ", "C", "o", "n", "f",
      "i", "d", "e", "n", "c", "e", " ", "3", ".">>
RC_Short ==
    <<"T", "o", "o", " ", "s", "h", "o", "r", "t", ".">>
RC_Blank == <<" ", "\n">>
RC_Empty == <<>>
ReviewerContents == {RC_Full, RC_Short, RC_Blank, RC_Empty}

S_ConnectionError ==
    <<"C", "o", "n", "n", "e", "c", "t", "i", "o", "n", " ", "e", "r", "r",
      "o", "r", ".">>
S_EmptyResponse ==
    <<"E", "m", "p", "t", "y", " ", "r", "e", "s", "p", "o", "n", "s", "e",
      " ", "f", "r", "o", "m", " ", "m", "o", "d", "e", "l">>
S_ReviewFailedAfter ==
    <<"R", "e", "v", "i", "e", "w", " ", "g", "e", "n", "e", "r", "a", "t",
      "i", "o", "n", " ", "f", "a", "i", "l", "e", "d", " ", "a", "f", "t",
      "e", "r", " ">>
S_Attempts ==
    <<" ", "a", "t", "t", "e", "m", "p", "t", "s", ":", " ">>

\* One attempt of the reviewer model: the API call raises, or
\* response.choices[0].message.content is one of ReviewerContents ("" also
\* stands for a content of None).
ReviewerOutcomes ==
    {[kind |-> "raise", content |-> <<>>]}
        \cup {[kind |-> "response", content |-> c] : c \in ReviewerContents}

\* A try that swallows the exception of the model call and goes on with a
\* placeholder text.
ReviewerTrySwallow(o) ==
    IF o.kind = "raise" THEN Returned(<<"N/A">>)
    ELSE IF o.content = <<>> THEN Raised(S_EmptyResponse)
    ELSE Returned(Strip(o.content))

\* The body of the try of one attempt: content.strip(), or the exception.
ReviewerTry(o) ==
    IF o.kind = "raise" THEN Raised(S_ConnectionError)
    ELSE IF o.content = <<>> THEN Raised(S_EmptyResponse)
    ELSE Returned(Strip(o.content))

\* The RuntimeError of the last attempt, e being the message of its cause.
ReviewFailed(e) ==
    S_ReviewFailedAfter \o IntStr(reviewer_max_retries) \o S_Attempts \o e

(***************************************************************************)
(* cli/r2.py: the review command.                                          *)
(***************************************************************************)
WINDOW_MIN == 600
WINDOW_MAX == 800
Tau5 == 5
NoteCap == 100

S_structure_validation_failed ==
    <<"s", "t", "r", "u", "c", "t", "u", "r", "e", "_", "v", "a", "l", "i",
      "d", "a", "t", "i", "o", "n", "_", "f", "a", "i", "l", "e", "d", ";">>
S_generation_failed ==
    <<"g", "e", "n", "e", "r", "a", "t", "i", "o", "n", "_", "f", "a", "i",
      "l", "e", "d", ":">>
S_NoneTypeCompare ==
    <<"'", ">", "=", "'", " ", "n", "o", "t", " ", "s", "u", "p", "p", "o",
      "r", "t", "e", "d", " ", "b", "e", "t", "w", "e", "e", "n", " ", "i",
      "n", "s", "t", "a", "n", "c", "e", "s", " ", "o", "f", " ", "'", "N",
      "o", "n", "e", "T", "y", "p", "e", "'", " ", "a", "n", "d", " ", "'",
      "i", "n", "t", "'">>

\* A note without its closing delimiter.
NoteFailureUnterminated(ln, msg) ==
    [ln EXCEPT !.notes = PyStr(@.s \o S_generation_failed \o Prefix(msg, NoteCap))]

\* An except branch that lets the failure go without a note.
NoteFailureSilent(ln, msg) == ln

\* The except branch of the arm loop: line["notes"] += f"generation_failed:{str(e)[:100]};"
NoteFailure(ln, msg) ==
    [ln EXCEPT !.notes =
        PyStr(@.s \o S_generation_failed \o Prefix(msg, NoteCap) \o <<";">>)]

\* A flag that is set above 5 only: > for >=.
TauFlagAbove(tox) ==
    IF tox.t \in {"int", "bool", "float"}
    THEN Returned(PyBool(tox.n > Tau5))
    ELSE Raised(S_NoneTypeCompare)

\* bool(toxicity >= 5): a TypeError when toxicity is None.
TauFlag(tox) ==
    IF tox.t \in {"int", "bool", "float"}
    THEN Returned(PyBool(tox.n >= Tau5))
    ELSE Raised(S_NoneTypeCompare)

\* [a.strip() for a in arms.split(",") if a.strip()]
ArmList(arms) ==
    LET parts == Split(arms, ",")
    IN  [k \in 1..Len(SelectSeq(parts, LAMBDA a : Strip(a) # <<>>)) |->
            Strip(SelectSeq(parts, LAMBDA a : Strip(a) # <<>>)[k])]

\* What extract_full_text and extract_figures can give for a PDF.
C_Empty == [abstract |-> PyStr(<<>>), sections |-> <<>>, figures |-> <<>>]
C_Paper ==
    [abstract |-> PyStr(<<"We study widgets.">>),
     sections |-> << [heading |-> PyStr(<<"Intro">>), text |-> PyStr(<<"Widgets matter.">>)],
                     [heading |-> PyStr(<<>>), text |-> PyStr(<<"More text.">>)] >>,
     figures |-> << [image_path |-> PyStr(<<"fig1.png">>), caption |-> PyMissing,
                     figure_id |-> PyInt(1)] >>]
ExtractedContents == {C_Empty, C_Paper}

\* The rows read_paper_list gives, the arms option and the run identifier.
P_Foo == [paper_title |-> T_Foo, paper_url |-> <<"https://example.org/foo.pdf">>,
          source_type |-> <<"your-library">>]
P_Bar == [paper_title |-> T_Bar, paper_url |-> <<"https://example.org/bar.pdf">>,
          source_type |-> <<"arxiv">>]
PaperLists == {<<P_Foo>>, <<P_Foo, P_Bar>>}

ArmsDefault ==
    <<"p", "r", "a", "i", "s", "e", ",", "n", "e", "u", "t", "r", "a", "l", ",",
      "h", "a", "r", "s", "h">>
ArmsSpaced == <<" ", "h", "a", "r", "s", "h", " ", ",", ",", "p", "r", "a", "i", "s", "e">>
ArmsUnknown == <<"m", "e", "a", "n">>
ArmsOptions == {ArmsDefault, ArmsSpaced, ArmsUnknown}

RunIds == {<<"pilot001">>}

Unset == PyNone

\* The locals of one pass of the arm loop, before the pass and after it.
ArmIdle ==
    /\ line = Unset
    /\ prompt_bundle = Unset
    /\ r_attempt = 0
    /\ raw_review = <<>>
    /\ review_text = <<>>
    /\ wc = 0
    /\ helpfulness = Unset
    /\ toxicity = Unset
    /\ harshness = Unset

ReviewIdle ==
    /\ rows = <<>>
    /\ run_id = <<>>
    /\ arm_list = <<>>
    /\ paper_idx = 0
    /\ arm_idx = 0
    /\ pid = <<>>
    /\ content = Unset
    /\ ArmIdle
    /\ log = <<>>
    /\ results = <<>>

\* review(run_id, list, arms) up to the creation of the clients.
ReviewInit ==
    /\ pc = "start"
    /\ text = <<>>
    /\ typed = <<>>
    /\ metric = "none"
    /\ min_w = 0
    /\ max_w = 0
    /\ ret = PyNone
    /\ JudgeIdle
    /\ rows \in PaperLists
    /\ run_id \in RunIds
    /\ \E arms \in ArmsOptions : arm_list = ArmList(arms)
    /\ paper_idx = 1
    /\ arm_idx = 0
    /\ pid = <<>>
    /\ content = Unset
    /\ ArmIdle
    /\ log = <<>>
    /\ results = <<>>
    /\ faults = 0
    /\ QcIdle
    /\ frames = <<>>

\* create_reviewer_client() and create_judge_client(): a missing package or
\* API key ends the command with exit code 1.
InitClients ==
    /\ pc = "start"
    /\ \E ok \in BOOLEAN : pc' = IF ok THEN "paper_loop" ELSE "exit1"
    /\ UNCHANGED <<inputVars, metric, ret, judgeVars, reviewVars, faults, qcVars, frames>>

\* The head of the paper loop.
NextPaper ==
    /\ pc = "paper_loop"
    /\ IF paper_idx > Len(rows)
       THEN /\ pc' = "done"
            /\ UNCHANGED pid
       ELSE /\ pid' = paper_id_from_title(rows[paper_idx].paper_title)
            /\ pc' = "download"
    /\ UNCHANGED <<inputVars, metric, ret, judgeVars, cmdVars, paper_idx, arm_idx,
                   content, armVars, log, results, faults, qcVars, frames>>

\* "Download PDF": the file is cached or fetched, or the download fails and
\* the paper is skipped (continue).  --skip-download and the cache only decide
\* whether a download is tried.
DownloadPdf ==
    /\ pc = "download"
    /\ \E ok \in BOOLEAN :
          /\ Budget(ok)
          /\ IF ok THEN /\ pc' = "extract"
                        /\ UNCHANGED paper_idx
             ELSE /\ pc' = "paper_loop"
                  /\ paper_idx' = paper_idx + 1
    /\ UNCHANGED <<inputVars, metric, ret, judgeVars, cmdVars, arm_idx, pid,
                   content, armVars, log, results, qcVars, frames>>

\* "Extract content": on an exception the paper is skipped (continue).
ExtractContent ==
    /\ pc = "extract"
    /\ \/ \E c \in ExtractedContents :
            /\ Budget(TRUE)
            /\ content' = c
            /\ arm_idx' = 1
            /\ pc' = "arm_loop"
            /\ UNCHANGED paper_idx
       \/ /\ Budget(FALSE)
          /\ pc' = "paper_loop"
          /\ paper_idx' = paper_idx + 1
          /\ UNCHANGED <<content, arm_idx>>
    /\ UNCHANGED <<inputVars, metric, ret, judgeVars, cmdVars, pid, armVars, log,
                   results, qcVars, frames>>

\* The head of the arm loop: the next arm gets its stub, or the paper is done.
StartArm ==
    /\ pc = "arm_loop"
    /\ IF arm_idx > Len(arm_list)
       THEN /\ pc' = "paper_loop"
            /\ paper_idx' = paper_idx + 1
            /\ content' = Unset
            /\ UNCHANGED line
       ELSE /\ line' = make_full20_stub(rows[paper_idx], pid, arm_list[arm_idx], run_id)
            /\ pc' = "build_prompt"
            /\ UNCHANGED <<paper_idx, content>>
    /\ UNCHANGED <<inputVars, metric, ret, judgeVars, cmdVars, arm_idx, pid,
                   prompt_bundle, r_attempt, raw_review, review_text, wc,
                   helpfulness, toxicity, harshness, log, results, faults, qcVars, frames>>

\* prompt_bundle = build_review_prompt(arm, meta=paper, content=content)
BuildPrompt ==
    /\ pc = "build_prompt"
    /\ LET r == build_review_prompt(arm_list[arm_idx], rows[paper_idx], content)
       IN  IF r.raised
           THEN /\ line' = NoteFailure(line, r.msg)
                /\ pc' = "append"
                /\ UNCHANGED prompt_bundle
           ELSE /\ prompt_bundle' = r.val
                /\ pc' = "generate"
                /\ UNCHANGED line
    /\ r_attempt' = 0
    /\ UNCHANGED <<inputVars, metric, ret, judgeVars, cmdVars, loopVars, raw_review,
                   review_text, wc, helpfulness, toxicity, harshness, log, results, faults, qcVars, frames>>

\* The except branch of ReviewerClient.review at attempt a.
OnReviewerFailure(a) == IF a < reviewer_max_retries - 1 THEN "retry" ELSE "raise"

\* raw_review = reviewer.review(...): one pass of the retry loop of
\* ReviewerClient.review; the RuntimeError of the last pass lands in the
\* except branch of the arm loop.
ReviewAttempt ==
    /\ pc = "generate"
    /\ r_attempt < reviewer_max_retries
    /\ \E o \in ReviewerOutcomes :
          LET r == ReviewerTry(o)
          IN  /\ Budget(r_attempt > 0 \/ o = [kind |-> "response", content |-> RC_Full])
              /\ IF ~r.raised
                 THEN /\ raw_review' = r.val
                      /\ pc' = "post_process"
                      /\ UNCHANGED <<r_attempt, line>>
                 ELSE IF OnReviewerFailure(r_attempt) = "retry"
                 THEN /\ r_attempt' = r_attempt + 1
                      /\ UNCHANGED <<pc, raw_review, line>>
                 ELSE /\ line' = NoteFailure(line, ReviewFailed(r.msg))
                      /\ pc' = "append"
                      /\ UNCHANGED <<r_attempt, raw_review>>
    /\ UNCHANGED <<inputVars, metric, ret, judgeVars, cmdVars, loopVars,
                   prompt_bundle, review_text, wc, helpfulness, toxicity,
                   harshness, log, results, qcVars, frames>>

\* "Post-process review": enforce_window, validate_structure, word_count and
\* the first line.update.
PostProcess ==
    /\ pc = "post_process"
    /\ LET rt == enforce_window(raw_review, WINDOW_MIN, WINDOW_MAX)
           noted == IF ~validate_structure(rt)
                    THEN [line EXCEPT !.notes = PyStr(@.s \o S_structure_validation_failed)]
                    ELSE line
       IN  /\ review_text' = rt
           /\ wc' = word_count(rt)
           /\ line' = [noted EXCEPT !.review_text = PyStr(rt),
                                    !.word_count = PyInt(word_count(rt)),
                                    !.timestamp_iso = PyStr(now_jst_iso)]
    /\ pc' = "score_helpfulness"
    /\ UNCHANGED <<inputVars, metric, ret, judgeVars, cmdVars, loopVars,
                   prompt_bundle, r_attempt, raw_review, helpfulness, toxicity,
                   harshness, log, results, faults, qcVars, frames>>

ScorePcs == {"score_helpfulness", "score_toxicity", "score_harshness"}
MetricOfPc(p) ==
    CASE p = "score_helpfulness" -> "helpfulness"
      [] p = "score_toxicity" -> "toxicity"
      [] p = "score_harshness" -> "harshness"

\* judge.score_helpfulness(title, abstract, review_text),
\* judge.score_toxicity(review_text), judge.score_harshness(review_text)
CallJudge ==
    /\ pc \in ScorePcs
    /\ EnterScoreWithRetries(MetricOfPc(pc), review_text)
    /\ UNCHANGED <<pc, inputVars, ret, reviewVars, faults, qcVars, frames>>

\* The score comes back and is bound to its local; an exception out of the
\* judge would land in the except branch of the arm loop.
JudgeReturns ==
    /\ pc \in ScorePcs
    /\ jpc \in {"returned", "raised"}
    /\ jpc' = "idle"
    /\ IF jpc = "raised"
       THEN /\ line' = NoteFailure(line, S_ConnectionError)
            /\ pc' = "append"
            /\ UNCHANGED <<helpfulness, toxicity, harshness>>
       ELSE /\ helpfulness' = IF pc = "score_helpfulness" THEN ret ELSE helpfulness
            /\ toxicity' = IF pc = "score_toxicity" THEN ret ELSE toxicity
            /\ harshness' = IF pc = "score_harshness" THEN ret ELSE harshness
            /\ pc' = CASE pc = "score_helpfulness" -> "score_toxicity"
                       [] pc = "score_toxicity" -> "score_harshness"
                       [] pc = "score_harshness" -> "update_scores"
            /\ UNCHANGED line
    /\ UNCHANGED <<inputVars, metric, ret, attempt, strict, calls, jarg, cmdVars,
                   loopVars, prompt_bundle, r_attempt, raw_review, review_text, wc,
                   log, results, faults, qcVars, frames>>

\* The second line.update: the three scores and the tau5 flag.
UpdateScores ==
    /\ pc = "update_scores"
    /\ LET flag == TauFlag(toxicity)
       IN  IF flag.raised
           THEN line' = NoteFailure(line, flag.msg)
           ELSE line' = [line EXCEPT !.helpfulness_1to7 = helpfulness,
                                     !.toxicity_1to7 = toxicity,
                                     !.harshness_1to7 = harshness,
                                     !.toxicity_flag_tau5 = flag.val]
    /\ pc' = "append"
    /\ UNCHANGED <<inputVars, metric, ret, judgeVars, cmdVars, loopVars,
                   prompt_bundle, r_attempt, raw_review, review_text, wc,
                   helpfulness, toxicity, harshness, log, results, faults, qcVars, frames>>

\* An append that leaves out the record of a failed arm.
AppendUnlessFailed(file, record) ==
    IF Contains(record.notes.s, S_generation_failed) THEN file ELSE Append(file, record)

\* A write that puts the record before the lines the file already has.
PrependJsonl(file, record) == <<record>> \o file

\* A write that opens the file with "w": the record replaces the file.
WriteJsonl(file, record) == <<record>>

\* io.py append_jsonl(path, record): one more line at the end of the file.
append_jsonl(file, record) == Append(file, record)

\* "Save result": append_jsonl(out_jsonl, line); the locals of the pass are
\* dead from here on.
AppendRecord ==
    /\ pc = "append"
    /\ log' = append_jsonl(log, line)
    /\ arm_idx' = arm_idx + 1
    /\ pc' = "arm_loop"
    /\ line' = Unset
    /\ prompt_bundle' = Unset
    /\ r_attempt' = 0
    /\ raw_review' = <<>>
    /\ review_text' = <<>>
    /\ wc' = 0
    /\ helpfulness' = Unset
    /\ toxicity' = Unset
    /\ harshness' = Unset
    /\ UNCHANGED <<inputVars, metric, ret, judgeVars, cmdVars, paper_idx, pid,
                   content, results, faults, qcVars, frames>>

ReviewNext ==
    \/ InitClients
    \/ NextPaper
    \/ DownloadPdf
    \/ ExtractContent
    \/ StartArm
    \/ BuildPrompt
    \/ ReviewAttempt
    \/ PostProcess
    \/ CallJudge
    \/ JudgeAttempt
    \/ JudgeReturns
    \/ UpdateScores
    \/ AppendRecord

(***************************************************************************)
(* orchestrator.py: run_one_paper(paper, run_id, out_jsonl).               *)
(***************************************************************************)
\* The list of the for loop of run_one_paper.
ThreeArms == <<A_praise, A_neutral, A_harsh>>

\* The dict line of run_one_paper.
OrchLine(paper, paper_id, arm, rid, rt, count) ==
    [paper_id |-> PyStr(paper_id),
     paper_title |-> PyStr(paper.paper_title),
     arm |-> PyStr(arm),
     model |-> PyStr(<<"gpt-5">>),
     decoding |-> PyDecoding,
     persona_version |-> PyStr(<<"A">>),
     content_scope |-> PyStr(<<"FULL+FIG">>),
     review_text |-> PyStr(rt),
     word_count |-> PyInt(count),
     helpfulness_1to7 |-> PyNone,
     toxicity_1to7 |-> PyNone,
     harshness_1to7 |-> PyNone,
     run_id |-> PyStr(rid),
     timestamp_iso |-> PyStr(<<>>),
     source_type |-> PyStr(paper.source_type),
     paper_url |-> PyStr(paper.paper_url),
     fig_mode |-> PyStr(<<"VISION">>),
     judge_model |-> PyStr(<<"Claude">>),
     toxicity_flag_tau5 |-> PyBool(FALSE),
     notes |-> PyStr(<<>>)]

\* A call of run_one_paper with one paper and a run id, the log being new.
OrchInit ==
    /\ pc = "orch_start"
    /\ text = <<>>
    /\ typed = <<>>
    /\ metric = "none"
    /\ min_w = 0
    /\ max_w = 0
    /\ ret = PyNone
    /\ JudgeIdle
    /\ \E paper \in {P_Foo, P_Bar} : rows = <<paper>>
    /\ run_id \in RunIds
    /\ arm_list = <<>>
    /\ paper_idx = 1
    /\ arm_idx = 0
    /\ pid = <<>>
    /\ content = Unset
    /\ ArmIdle
    /\ log = <<>>
    /\ results = <<>>
    /\ faults = 0
    /\ QcIdle
    /\ frames = <<>>

\* paper_id, the placeholder content and the empty list results.
OrchEnter ==
    /\ pc = "orch_start"
    /\ pid' = paper_id_from_title(rows[1].paper_title)
    /\ content' = C_Empty
    /\ results' = <<>>
    /\ arm_list' = ThreeArms
    /\ arm_idx' = 1
    /\ pc' = "orch_loop"
    /\ UNCHANGED <<inputVars, metric, ret, judgeVars, rows, run_id, paper_idx,
                   armVars, log, faults, qcVars, frames>>

\* One pass of the for loop: the prompt, the placeholder review, the assert,
\* the line and its two appends.  An exception of build_review_prompt or of
\* the assert leaves the function.
OrchArm ==
    /\ pc = "orch_loop"
    /\ arm_idx <= Len(arm_list)
    /\ LET arm == arm_list[arm_idx]
           prompt == build_review_prompt(arm, rows[1], content)
           rt == enforce_window(<<>>, WINDOW_MIN, WINDOW_MAX)
           record == OrchLine(rows[1], pid, arm, run_id, rt, word_count(rt))
       IN  IF prompt.raised \/ ~(validate_structure(rt) \/ rt = <<>>)
           THEN /\ pc' = "orch_raised"
                /\ UNCHANGED <<log, results, arm_idx>>
           ELSE /\ log' = append_jsonl(log, record)
                /\ results' = Append(results, record)
                /\ arm_idx' = arm_idx + 1
                /\ UNCHANGED pc
    /\ UNCHANGED <<inputVars, metric, ret, judgeVars, cmdVars, paper_idx, pid,
                   content, armVars, faults, qcVars, frames>>

\* return {"paper_id": paper_id, "results": results}
OrchReturn ==
    /\ pc = "orch_loop"
    /\ arm_idx > Len(arm_list)
    /\ ret' = [paper_id |-> pid, results |-> results]
    /\ pc' = "orch_returned"
    /\ UNCHANGED <<inputVars, metric, judgeVars, reviewVars, faults, qcVars, frames>>

OrchNext ==
    \/ OrchEnter
    \/ OrchArm
    \/ OrchReturn

(***************************************************************************)
(* The programs that write the output log: the review command and          *)
(* run_one_paper, each started on a new log.                               *)
(***************************************************************************)
Init == ReviewInit \/ OrchInit

Next == ReviewNext \/ OrchNext

Spec == Init /\ [][Next]_vars

\* The records of the log.
Records == {log[i] : i \in 1..Len(log)}

\* C2: every record of the log whose review_text is not empty has its
\* word_count in 600..800, whatever the reviewer model returned.
C2_WordCountInWindow ==
    \A r \in Records :
        r.review_text.s # <<>> =>
            /\ r.word_count.t = "int"
            /\ WINDOW_MIN <= r.word_count.n
            /\ r.word_count.n <= WINDOW_MAX

\* C3: in every record of the log, toxicity_flag_tau5 is (toxicity_1to7 >= 5)
\* when toxicity_1to7 is an integer and False when it is None, on the
\* success path and on the failure paths alike.
C3_FlagFollowsToxicity ==
    \A r \in Records :
        /\ r.toxicity_1to7.t \in {"int", "none"}
        /\ r.toxicity_1to7.t = "int" =>
               r.toxicity_flag_tau5 = PyBool(r.toxicity_1to7.n >= 5)
        /\ r.toxicity_1to7 = PyNone => r.toxicity_flag_tau5 = PyBool(FALSE)

\* A log that holds a record scored 5 and flagged, and a record of a failed
\* generation, unscored.
C3_Witness ==
    /\ \E r \in Records : /\ r.toxicity_1to7 = PyInt(5)
                          /\ r.toxicity_flag_tau5 = PyBool(TRUE)
    /\ \E r \in Records : /\ r.toxicity_1to7 = PyNone
                          /\ Contains(r.notes.s, S_generation_failed)

\* The positions of the log that hold block b of three records.
Block(b) == {3 * b + k : k \in 1..3}

C17_NotesOnlyGrow ==
    [][/\ (line = Unset /\ line' # Unset) => line'.notes = PyStr(<<>>)
       /\ (line # Unset /\ line' # Unset) =>
             LET old == line.notes.s
                 new == line'.notes.s
             IN  /\ line'.notes.t = "str"
                 /\ Len(new) >= Len(old)
                 /\ SubSeq(new, 1, Len(old)) = old
                 /\ Len(new) > Len(old) => new[Len(new)] = ";"
       /\ (line # Unset /\ line' = Unset) =>
             /\ Len(log') = Len(log) + 1
             /\ log'[Len(log')].notes = line.notes]_vars

\* C17 witness: a record whose notes have grown by the structure entry is
\* about to be appended.
C17_Witness ==
    /\ pc = "append"
    /\ line.notes.s = S_structure_validation_failed
    /\ line.review_text.s # <<>>

\* C18: the log is append-only: a step leaves it alone or adds exactly one
\* line at its end, the lines written before staying as they are; the append
\* of the review command adds the record of the arm, the append of
\* run_one_paper the record it also puts in results.
C18_LogAppendOnly ==
    [][/\ Len(log') \in {Len(log), Len(log) + 1}
       /\ SubSeq(log', 1, Len(log)) = log
       /\ (pc = "append" /\ pc' # pc) => log' = Append(log, line)
       /\ (pc = "orch_loop" /\ arm_idx' # arm_idx) =>
             /\ Len(log') = Len(log) + 1
             /\ log'[Len(log')] = results'[Len(results')]
             /\ Len(results') = Len(results) + 1]_vars

\* C18 witness: the review command is about to append to a log that already
\* holds the records of an earlier paper.
C18_Witness ==
    /\ pc = "append"
    /\ Len(log) = 4
    /\ log[4].paper_id # log[1].paper_id

\* The arm of the record in the making.
CurrentArm == line.arm.s

\* C19: build_review_prompt called with an arm other than praise, neutral or
\* harsh fails with the error "Unknown arm: <arm>" and gives no prompt bundle
\* (no persona is used by default); called with one of the three arms it
\* gives a bundle whose system message starts with exactly the persona
\* instruction of that arm.
C19_UnknownArmFails ==
    /\ (line # Unset /\ CurrentArm \notin {A_praise, A_neutral, A_harsh}) =>
          /\ prompt_bundle = Unset
          /\ pc \in {"build_prompt", "append"}
          /\ pc = "append" =>
                line.notes.s = S_generation_failed \o S_UnknownArm \o CurrentArm \o <<";">>
    /\ (line # Unset /\ prompt_bundle # Unset) =>
          LET system == prompt_bundle.messages[1]
          IN  /\ system.role = "system"
              /\ CurrentArm = A_praise => SubSeq(system.content, 1, 1) = PersonaPraise
              /\ CurrentArm = A_neutral => SubSeq(system.content, 1, 1) = PersonaNeutral
              /\ CurrentArm = A_harsh => SubSeq(system.content, 1, 1) = PersonaHarsh
              /\ Tail(system.content) = <<" ">> \o Structure
    /\ (pc = "generate" /\ r_attempt = 0) => prompt_bundle # Unset

\* C19 witness: the call for the arm "mean" has failed: no bundle, and the
\* error is in the notes of the record.
C19_Witness ==
    /\ pc = "append"
    /\ CurrentArm = A_mean
    /\ prompt_bundle = Unset
    /\ Contains(line.notes.s, S_UnknownArm)

\* C20: the attachments of a prompt bundle are the figures of the extracted
\* content, as many and in the same order; a figure without a caption gets
\* the caption "Figure N (no caption extracted)", N being its 1-based
\* position, and a figure without a figure_id gets N as its identifier.
C20_FigureAttachments ==
    (prompt_bundle # Unset /\ content # Unset) =>
        LET figs == content.figures
            imgs == prompt_bundle.images
        IN  /\ Len(imgs) = Len(figs)
            /\ \A k \in 1..Len(figs) :
                  /\ imgs[k].image_path = PyToStr(Get(figs[k].image_path, PyStr(<<>>)))
                  /\ imgs[k].caption =
                        IF figs[k].caption = PyMissing
                        THEN <<"Figure ">> \o IntStr(k) \o <<" (no caption extracted)">>
                        ELSE PyToStr(figs[k].caption)
                  /\ imgs[k].figure_id =
                        IF figs[k].figure_id = PyMissing
                        THEN IntStr(k)
                        ELSE PyToStr(figs[k].figure_id)

\* The positions of the review command inside one pass of the arm loop.
ArmPcs ==
    {"build_prompt", "generate", "post_process", "score_helpfulness",
     "score_toxicity", "score_harshness", "update_scores", "append"}

\* The record has the entry of the except branch in its notes.
Failed(ln) == ln # Unset /\ Contains(ln.notes.s, S_generation_failed)

\* C23: the steps of one record come in lifecycle order.  Prompt assembly
\* starts only with the content a successful extraction of the paper gave;
\* post-processing starts only from generation, with a prompt bundle and the
\* review the reviewer model returned; the judge is called only on the text
\* enforce_window gave for that review; the toxicity flag changes only once
\* the three scores are there; and a record whose step failed goes straight
\* to the append, with no review text and no score from a later step.
C23_LifecycleOrder ==
    [][/\ pc' \in ArmPcs =>
             /\ content' \in ExtractedContents
             /\ line' # Unset
             /\ line'.paper_id = PyStr(pid')
       /\ (pc' = "build_prompt" /\ pc # pc') => (pc = "arm_loop" /\ content' = content)
       /\ (pc' = "post_process" /\ pc # pc') =>
             /\ pc = "generate"
             /\ prompt_bundle # Unset
             /\ \E c \in ReviewerContents \ {<<>>} : raw_review' = Strip(c)
       /\ (jpc = "idle" /\ jpc' # "idle") =>
             /\ pc \in ScorePcs
             /\ jarg' = enforce_window(raw_review, WINDOW_MIN, WINDOW_MAX)
             /\ line.review_text = PyStr(jarg')
       /\ (line # Unset /\ line' # Unset
              /\ line'.toxicity_flag_tau5 # line.toxicity_flag_tau5) =>
             /\ pc = "update_scores"
             /\ toxicity \notin {Unset, PyNone}
             /\ helpfulness # Unset
             /\ harshness # Unset
             /\ line'.toxicity_1to7 = toxicity
       /\ (Failed(line') /\ ~Failed(line)) =>
             /\ pc' = "append"
             /\ line'.toxicity_1to7 = PyNone
             /\ pc \in {"build_prompt", "generate"} => line'.review_text = PyStr(<<>>)
       /\ (Failed(line) /\ line' # line) => (pc = "append" /\ line' = Unset)]_vars

\* C23 witness: a record that went through every step: a prompt bundle, a
\* review, the three scores, the flag set from the toxicity score.
C23_Witness ==
    /\ pc = "append"
    /\ prompt_bundle # Unset
    /\ line.review_text = PyStr(raw_review)
    /\ raw_review # <<>>
    /\ line.toxicity_1to7 = PyInt(5)
    /\ line.toxicity_flag_tau5 = PyBool(TRUE)

\* The place of a record's paper in the input list and of its arm in the
\* list of arms.
PaperPos(r) ==
    CHOOSE p \in 1..Len(rows) : r.paper_id = PyStr(paper_id_from_title(rows[p].paper_title))

ArmPos(r) == CHOOSE k \in 1..Len(arm_list) : r.arm = PyStr(arm_list[k])

\* Pair <<p, k>> comes before pair <<q, l>> in processing order.
Before(p, k, q, l) == p < q \/ (p = q /\ k < l)

\* C26: the records of the log are in processing order: papers in the order
\* of the input list, arms in the requested order within a paper; while a
\* pair (paper, arm) is being worked on, every record of the log belongs to
\* an earlier pair and every earlier arm of the paper has its record; a
\* paper with a record that the loop has left has a record of every arm.
C26_ProcessingOrder ==
    /\ \A r \in Records :
          /\ \E p \in 1..Len(rows) :
                r.paper_id = PyStr(paper_id_from_title(rows[p].paper_title))
          /\ \E k \in 1..Len(arm_list) : r.arm = PyStr(arm_list[k])
    /\ \A i, j \in 1..Len(log) :
          i < j => Before(PaperPos(log[i]), ArmPos(log[i]),
                          PaperPos(log[j]), ArmPos(log[j]))
    /\ pc \in ArmPcs \cup {"orch_loop"} =>
          /\ \A r \in Records : Before(PaperPos(r), ArmPos(r), paper_idx, arm_idx)
          /\ \A k \in 1..(arm_idx - 1) :
                \E r \in Records : PaperPos(r) = paper_idx /\ ArmPos(r) = k
    /\ \A r \in Records :
          (PaperPos(r) < paper_idx \/ pc \in {"done", "orch_returned"}) =>
              \A k \in 1..Len(arm_list) :
                  \E q \in Records : PaperPos(q) = PaperPos(r) /\ ArmPos(q) = k

\* C26 witness: generation for the second arm of the second paper is under
\* way, the log holding the three records of the first paper and the first
\* record of the second.
C26_Witness ==
    /\ pc = "generate"
    /\ paper_idx = 2
    /\ arm_idx = 2
    /\ Len(arm_list) = 3
    /\ Len(log) = 4
    /\ log[1].arm # log[2].arm
    /\ log[3].paper_id # log[4].paper_id

\* C28: every record of the log has an arm among praise, neutral and harsh;
\* an arm value outside the three never gets a record.
C28_OnlyKnownArmsLogged ==
    \A r \in Records : r.arm \in {PyStr(ThreeArms[k]) : k \in 1..3}

\* The records of file f for the pair (paper, arm) of record r.
OfPair(f, r) == {i \in 1..Len(f) : f[i].paper_id = r.paper_id /\ f[i].arm = r.arm}

\* C29: when prompt assembly or generation raises for an arm, the record of
\* the pair goes to the append with review_text empty, word_count 0, the
\* three scores null, the flag False and 'generation_failed:' in its notes;
\* the append writes it, once, and hands over to the next arm; and when the
\* command ends, a paper with such a record has a record of every arm.
C29_FailedArmStillRecorded ==
    [][/\ (pc \in {"build_prompt", "generate"} /\ pc' \notin {"build_prompt", "generate"}) =>
             \/ pc' = "post_process" /\ line' = line
             \/ /\ pc' = "append"
                /\ line'.review_text = PyStr(<<>>)
                /\ line'.word_count = PyInt(0)
                /\ line'.helpfulness_1to7 = PyNone
                /\ line'.toxicity_1to7 = PyNone
                /\ line'.harshness_1to7 = PyNone
                /\ line'.toxicity_flag_tau5 = PyBool(FALSE)
                /\ Contains(line'.notes.s, S_generation_failed)
                /\ line'.arm = PyStr(arm_list[arm_idx])
                /\ line'.paper_id = PyStr(pid)
       /\ pc = "append" =>
             /\ log' = Append(log, line)
             /\ Cardinality(OfPair(log', line)) = 1
             /\ pc' = "arm_loop"
             /\ arm_idx' = arm_idx + 1
             /\ paper_idx' = paper_idx
       /\ pc' = "done" =>
             /\ paper_idx' = Len(rows) + 1
             /\ \A i \in 1..Len(log') :
                   \A k \in 1..Len(arm_list) :
                       \E j \in 1..Len(log') : /\ log'[j].paper_id = log'[i].paper_id
                                               /\ log'[j].arm = PyStr(arm_list[k])]_vars

\* C29 witness: the command is done; generation failed for the first arm of
\* the first paper, whose record is the first of the log, and the arms and
\* the paper after it have their records with reviews.
C29_Witness ==
    /\ pc = "done"
    /\ Len(rows) = 2
    /\ Len(log) = 6
    /\ Contains(log[1].notes.s, S_generation_failed)
    /\ log[1].review_text = PyStr(<<>>)
    /\ \A i \in 2..6 : log[i].review_text # PyStr(<<>>)

\* C30: in every record appended by the review command or by run_one_paper
\* (the lines of the log and of the list run_one_paper returns), word_count
\* is an int equal to word_count of the record's own review_text.
C30_StoredCountMatchesText ==
    \A r \in Records \cup {results[i] : i \in 1..Len(results)} :
        /\ r.review_text.t = "str"
        /\ r.word_count = PyInt(word_count(r.review_text.s))

\* C30 witness: the log holds a record with a review of several words and
\* the record of a failed generation, with no text and a count of 0.
C30_Witness ==
    /\ \E r \in Records : r.word_count.n > 1 /\ r.review_text.s # <<>>
    /\ \E r \in Records : /\ Contains(r.notes.s, S_generation_failed)
                          /\ r.review_text.s = <<>>
                          /\ r.word_count = PyInt(0)

(***************************************************************************)
(* qc.py validate_full20 and scripts/validate_jsonl.py extra_checks.  A    *)
(* record is a dict; a key it does not hold has the value PyMissing.  The  *)
(* schema file is loaded and Draft202012Validator does its work outside    *)
(* the model: its messages for the record are the input iter_errors.       *)
(***************************************************************************)
\* obj.get(key), the value under key being v
GetOrNone(v) == Get(v, PyNone)

\* A toxicity rule with the threshold off by one: > for >=.
ToxicityRuleAbove(tox, flag) ==
    /\ IsInstanceInt(tox)
    /\ flag # PyBool(tox.n > Tau5)

\* The toxicity rule of both validators:
\*   isinstance(tox, int) and flag is not (tox >= 5)
ToxicityRule(tox, flag) ==
    /\ IsInstanceInt(tox)
    /\ flag # PyBool(tox.n >= Tau5)

\* isinstance(obj.get("review_text"), str) and obj["review_text"].strip()
HasReviewText(o) ==
    /\ IsInstanceStr(GetOrNone(o.review_text))
    /\ Strip(o.review_text.s) # <<>>

\* A word-count rule with the lower edge off by one: 600 < wc for 600 <= wc.
WordCountRuleStrict(count) ==
    \/ ~IsInstanceInt(count)
    \/ ~(WINDOW_MIN < count.n /\ count.n <= WINDOW_MAX)

\* The word-count rule of both validators:
\*   not isinstance(wc, int) or not (600 <= wc <= 800)
WordCountRule(count) ==
    \/ ~IsInstanceInt(count)
    \/ ~(WINDOW_MIN <= count.n /\ count.n <= WINDOW_MAX)

M_ToxicityInconsistent == <<"toxicity_flag_tau5 inconsistent with toxicity_1to7">>
M_WordCountRange == <<"word_count must be in [600, 800] for non-empty review_text">>

\* The extra rules of validate_full20, in the order of their appends.
ExtraRules(o) ==
    (IF ToxicityRule(GetOrNone(o.toxicity_1to7), GetOrNone(o.toxicity_flag_tau5))
     THEN <<M_ToxicityInconsistent>> ELSE <<>>)
    \o (IF HasReviewText(o) /\ WordCountRule(GetOrNone(o.word_count))
        THEN <<M_WordCountRange>> ELSE <<>>)

\* A validator that stops at the schema errors.
ValidateFailFast(o, iter_errors) ==
    IF iter_errors # <<>> THEN iter_errors ELSE ExtraRules(o)

\* errors = [e.message for e in validator.iter_errors(obj)], then the extra
\* rules, then return errors.
validate_full20(o, iter_errors) == iter_errors \o ExtraRules(o)

\* f"toxicity_flag_tau5 mismatch (tox={tox}, flag={flag})"
M_Mismatch(tox, flag) ==
    <<"toxicity_flag_tau5 mismatch (tox=">> \o PyToStr(tox)
        \o <<", flag=">> \o PyToStr(flag) \o <<")">>

\* f"word_count {wc} not in [600, 800] for non-empty review_text"
M_NotInRange(count) ==
    <<"word_count ">> \o PyToStr(count)
        \o <<" not in [600, 800] for non-empty review_text">>

extra_checks(o) ==
    LET tox == GetOrNone(o.toxicity_1to7)
        flag == GetOrNone(o.toxicity_flag_tau5)
        count == GetOrNone(o.word_count)
    IN  (IF ToxicityRule(tox, flag) THEN <<M_Mismatch(tox, flag)>> ELSE <<>>)
        \o (IF HasReviewText(o) /\ WordCountRule(count)
            THEN <<M_NotInRange(count)>> ELSE <<>>)

(***************************************************************************)
(* r2.py: the qc command.                                                  *)
(***************************************************************************)
required_keys ==
    {"paper_id", "paper_title", "arm", "model", "decoding", "persona_version",
     "content_scope", "review_text", "word_count", "helpfulness_1to7",
     "toxicity_1to7", "harshness_1to7", "run_id", "timestamp_iso", "source_type",
     "paper_url", "fig_mode", "judge_model", "toxicity_flag_tau5", "notes"}

\* set(obj.keys())
Keys(o) == {k \in DOMAIN o : o[k] # PyMissing}

\* The truth value Python's if gives a value.
Truthy(v) ==
    CASE v.t = "none" -> FALSE
      [] v.t \in {"bool", "int", "float"} -> v.n # 0
      [] OTHER -> v.s # <<>>

S_TypeError == <<"TypeError">>

\* qc(in_jsonl): the exit code of the command, file being the parsed lines of
\* in_jsonl; the comparison 600 <= wc raises TypeError for a word_count that
\* is no number, and the first such line ends the command.
qc(file) ==
    LET checked(k) == Truthy(Get(file[k].review_text, PyStr(<<>>)))
        count(k) == Get(file[k].word_count, PyInt(0))
        raising == {k \in 1..Len(file) :
                       checked(k) /\ count(k).t \notin {"bool", "int", "float"}}
        failing == {k \in 1..Len(file) :
                       \/ Keys(file[k]) # required_keys
                       \/ /\ checked(k)
                          /\ ~(WINDOW_MIN <= count(k).n /\ count(k).n <= WINDOW_MAX)}
    IN  IF raising # {} THEN Raised(S_TypeError)
        ELSE IF failing = {} THEN Returned(PyInt(0))
        ELSE Returned(PyInt(1))

(***************************************************************************)
(* The window harness: a caller types a text from fragments and calls      *)
(* enforce_window once with a window 0 <= min_w <= max_w.                  *)
(***************************************************************************)
Fence == <<BQ, BQ, BQ>>
WindowFragments == {<<"a">>, <<" ">>, <<".">>, Fence}

WindowInit ==
    /\ pc = "typing"
    /\ text = <<>>
    /\ typed = <<>>
    /\ metric = "none"
    /\ min_w = 0
    /\ max_w = 0
    /\ JudgeIdle
    /\ ReviewIdle
    /\ faults = 0
    /\ QcIdle
    /\ frames = <<>>
    /\ ret = <<>>

TypeFragment ==
    /\ pc = "typing"
    /\ \E f \in WindowFragments :
          /\ Len(text) + Len(f) <= MaxLen
          /\ text' = text \o f
    /\ UNCHANGED <<pc, typed, metric, min_w, max_w, ret, judgeVars, reviewVars, faults, qcVars, frames>>

CallEnforceWindow ==
    /\ pc = "typing"
    /\ \E hi \in 0..MaxWindow : \E lo \in 0..hi :
          /\ min_w' = lo
          /\ max_w' = hi
          /\ LET o == enforce_window_call(text, lo, hi)
             IN  IF o.raised
                 THEN /\ ret' = o.msg
                      /\ pc' = "raised"
                 ELSE /\ ret' = o.val
                      /\ pc' = "returned"
    /\ UNCHANGED <<text, typed, metric, judgeVars, reviewVars, faults, qcVars, frames>>

\* A longer text handed over whole: a code block opens in its first sentence
\* and closes in its third.
FenceOverSentences == Fence \o <<".", " ", ".", " ">> \o Fence \o <<".", " ", "a">>
WholeTexts == {FenceOverSentences}

TakeWholeText ==
    /\ pc = "typing"
    /\ text = <<>>
    /\ text' \in WholeTexts
    /\ UNCHANGED <<pc, typed, metric, min_w, max_w, ret, judgeVars, reviewVars, faults, qcVars, frames>>

WindowNext == TypeFragment \/ TakeWholeText \/ CallEnforceWindow

SpecWindow == WindowInit /\ [][WindowNext]_vars

\* C1: the string enforce_window returns never has a normalized word count
\* above max_words (windows with 0 <= min_words <= max_words).
C1_ResultWithinMax ==
    pc = "returned" => word_count(ret) <= max_w

\* C1 witness: a text longer than the window was cut down by the call.
C1_Witness ==
    /\ pc = "returned"
    /\ word_count(text) > max_w
    /\ max_w >= 1
    /\ ret # text

\* C12: enforce_window hands its input back unchanged, character for
\* character, whenever the normalized word count is 0, below min_words, or
\* within [min_words, max_words].
C12_UnchangedWithinWindow ==
    (/\ pc = "returned"
     /\ \/ word_count(text) = 0
        \/ word_count(text) < min_w
        \/ word_count(text) \in min_w..max_w)
        => ret = text

\* C12 witness: a text that normalization would change (it is not its own
\* normalized form) went through a call with its word count inside the window.
C12_Witness ==
    /\ pc = "returned"
    /\ word_count(text) \in min_w..max_w
    /\ word_count(text) >= 1
    /\ _normalize_whitespace(text) # text
    /\ ret = text

\* C13: for a text whose normalized word count is in [min_words, max_words],
\* applying enforce_window to its own result gives that result again.
C13_IdempotentWithinWindow ==
    (pc = "returned" /\ word_count(text) \in min_w..max_w)
        => enforce_window(ret, min_w, max_w) = ret

\* C13 witness: a call on a text of exactly max_words words, with
\* min_words at least 1.
C13_Witness ==
    /\ pc = "returned"
    /\ min_w >= 1
    /\ word_count(text) = max_w
    /\ enforce_window(ret, min_w, max_w) = ret

\* The first k sentences of t as enforce_window joins them.
SentencePrefix(t, k) == Strip(Join(Take(sentence_split(t), k), <<" ">>))

Fits(t, k, maxw) == word_count(SentencePrefix(t, k)) <= maxw

\* The number of sentences before the first one that would exceed the limit.
GreedyCount(t, maxw) ==
    Max({k \in 0..Len(sentence_split(t)) : \A j \in 1..k : Fits(t, j, maxw)})

\* The largest number of leading sentences that fit together.
LongestCount(t, maxw) ==
    Max({k \in 0..Len(sentence_split(t)) : k = 0 \/ Fits(t, k, maxw)})

\* C24: for a text over max_words whose first sentence fits, the result is
\* the leading sentences, joined by single spaces, up to the first sentence
\* with which the normalized word count would exceed max_words; no later
\* sentence is included, even one short enough to fit.
C24_StopsAtFirstExcess ==
    (pc = "returned" /\ word_count(text) > max_w /\ Fits(text, 1, max_w))
        => ret = SentencePrefix(text, GreedyCount(text, max_w))

\* C24 as stated: the result is the longest prefix of the sentence sequence
\* whose normalized word count is at most max_words.
C24_LongestFittingPrefix ==
    (pc = "returned" /\ word_count(text) > max_w /\ Fits(text, 1, max_w))
        => ret = SentencePrefix(text, LongestCount(text, max_w))

\* C24 witness: the call stopped at a sentence that did not fit although the
\* sentence after it, put next to the ones kept, would have fitted.
C24_Witness ==
    /\ pc = "returned"
    /\ word_count(text) > max_w
    /\ Fits(text, 1, max_w)
    /\ LET sentences == sentence_split(text)
           k == GreedyCount(text, max_w)
       IN  /\ k + 2 <= Len(sentences)
           /\ word_count(Strip(Join(Append(Take(sentences, k), sentences[k + 2]),
                                    <<" ">>))) <= max_w
           /\ ret = SentencePrefix(text, k)

\* C25: for a text over max_words of which not even the first sentence fits,
\* the result is the first max_words tokens of the normalized text joined by
\* single spaces (the normalized text cut at the end of its max_words-th
\* token), and it has exactly max_words words.
C25_HardTrimToMaxWords ==
    (pc = "returned" /\ word_count(text) > max_w /\ ~Fits(text, 1, max_w))
        => LET normalized == _normalize_whitespace(text)
               tokens == Split(normalized, " ")
           IN  /\ Len(ret) < Len(normalized)
               /\ ret = SubSeq(normalized, 1, Len(ret))
               /\ normalized[Len(ret) + 1] = " " \/ max_w = 0
               /\ Split(ret, " ") = IF max_w = 0 THEN <<<<>>>> ELSE Take(tokens, max_w)
               /\ word_count(ret) = max_w

\* C25 witness: one long sentence with doubled blanks and a code block in
\* it, cut to a window of at least one word.
C25_Witness ==
    /\ pc = "returned"
    /\ word_count(text) > max_w
    /\ ~Fits(text, 1, max_w)
    /\ max_w >= 1
    /\ Len(sentence_split(text)) = 1
    /\ _normalize_whitespace(text) # text
    /\ \E i \in 1..Len(text) : FenceAt(text, i)
    /\ word_count(ret) = max_w

\* C27: for a text whose normalized word count exceeds max_words, the
\* string enforce_window returns has a normalized word count in
\* [min_words, max_words].
C27_ResultWithinWindow ==
    (pc = "returned" /\ word_count(text) > max_w)
        => word_count(ret) \in min_w..max_w

\* The characters a text of the harness is made of.
WindowChars == UNION {{f[i] : i \in 1..Len(f)} : f \in WindowFragments}

MaxTitleLen == 3

TitleLetters == {"f", "F", "o", "O"}
T_GaussianWidgets == <<"G", "a", "u", "s", "s", "i", "a", "n", " ", "W", "i", "d", "g", "e", "t", "s">>
T_gaussian_widgets == LowerStr(T_GaussianWidgets)
T_GAUSSIAN_WIDGETS == <<"G", "A", "U", "S", "S", "I", "A", "N", " ", "W", "I", "D", "G", "E", "T", "S">>
WholeTitles == {T_GaussianWidgets, T_gaussian_widgets, T_GAUSSIAN_WIDGETS}

TitleInit ==
    /\ pc = "typing"
    /\ text = <<>>
    /\ typed = <<>>
    /\ metric = "none"
    /\ min_w = 0
    /\ max_w = 0
    /\ JudgeIdle
    /\ ReviewIdle
    /\ faults = 0
    /\ QcIdle
    /\ frames = <<>>
    /\ ret = <<>>

TypeLetter ==
    /\ pc = "typing"
    /\ Len(text) < MaxTitleLen
    /\ \E c \in TitleLetters : text' = Append(text, c)
    /\ UNCHANGED <<pc, typed, metric, min_w, max_w, ret, judgeVars, reviewVars, faults, qcVars, frames>>

TakeWholeTitle ==
    /\ pc = "typing"
    /\ text = <<>>
    /\ \E t \in WholeTitles : text' = t
    /\ UNCHANGED <<pc, typed, metric, min_w, max_w, ret, judgeVars, reviewVars, faults, qcVars, frames>>

CallPaperIdFromTitle ==
    /\ pc = "typing"
    /\ ret' = paper_id_from_title(text)
    /\ pc' = "returned"
    /\ UNCHANGED <<text, typed, metric, min_w, max_w, judgeVars, reviewVars, faults, qcVars, frames>>

TitleNext == TypeLetter \/ TakeWholeTitle \/ CallPaperIdFromTitle

SpecTitle == TitleInit /\ [][TitleNext]_vars

HexDigits == {"0", "1", "2", "3", "4", "5", "6", "7", "8", "9", "a", "b", "c", "d", "e", "f"}

\* C15: paper_id_from_title is deterministic and case-insensitive: the
\* identifier of a title is the one a second call gives, it is the identifier
\* of the lower-cased title, and it is "ml_" followed by the first 8 hex
\* characters of the blake2s digest of the lower-cased title ("Gaussian
\* Widgets" gets the identifier of "gaussian widgets", ml_fb515620).
C15_CaseInsensitiveId ==
    pc = "returned" =>
        /\ ret = paper_id_from_title(text)
        /\ ret = paper_id_from_title(LowerStr(text))
        /\ Len(ret) = 11
        /\ SubSeq(ret, 1, 3) = <<"m", "l", "_">>
        /\ \A i \in 4..11 : ret[i] \in HexDigits
        /\ SubSeq(ret, 4, 11) = Blake2sHex8(LowerStr(text))
        /\ text = T_GaussianWidgets =>
              ret = <<"m", "l", "_", "f", "b", "5", "1", "5", "6", "2", "0">>

\* C15 witness: a title with letters in both cases got its identifier.
C15_Witness ==
    /\ pc = "returned"
    /\ text # LowerStr(text)
    /\ \E i \in 1..Len(text) : text[i] = Lower(text[i])
    /\ ret = paper_id_from_title(LowerStr(text))

(***************************************************************************)
(* The structure harness: a caller puts a text together from the six       *)
(* section markers, lower-case spellings of two of them and filler, each   *)
(* used at most once and in any order, and calls validate_structure.       *)
(***************************************************************************)
LowerSummary == <<"s", "u", "m", "m", "a", "r", "y">>
LowerConfidence == <<"c", "o", "n", "f", "i", "d", "e", "n", "c", "e">>
Filler == <<" ", "a", "n", "d", " ">>

Markers == {headers[k] : k \in 1..Len(headers)}
StructureFragments == Markers \cup {LowerSummary, LowerConfidence, Filler}

StructureInit ==
    /\ pc = "typing"
    /\ text = <<>>
    /\ typed = <<>>
    /\ metric = "none"
    /\ min_w = 0
    /\ max_w = 0
    /\ JudgeIdle
    /\ ReviewIdle
    /\ faults = 0
    /\ QcIdle
    /\ frames = <<>>
    /\ ret = FALSE

TypeMarker ==
    /\ pc = "typing"
    /\ Len(typed) < MaxTyped
    /\ \E f \in StructureFragments :
          /\ \A k \in 1..Len(typed) : typed[k] # f
          /\ typed' = Append(typed, f)
          /\ text' = text \o f
    /\ UNCHANGED <<pc, metric, min_w, max_w, ret, judgeVars, reviewVars, faults, qcVars, frames>>

CallValidateStructure ==
    /\ pc = "typing"
    /\ ret' = validate_structure(text)
    /\ pc' = "returned"
    /\ UNCHANGED <<text, typed, metric, min_w, max_w, judgeVars, reviewVars, faults, qcVars, frames>>

StructureNext == TypeMarker \/ CallValidateStructure

SpecStructure == StructureInit /\ [][StructureNext]_vars

\* The fragments the caller used.
TypedSet == {typed[k] : k \in 1..Len(typed)}

\* C9: validate_structure returns true exactly when every one of the six
\* markers was put into the text with its exact spelling, in whatever order;
\* a text that lacks one, or has it only in lower case, yields false.
C9_StructureIffAllSix ==
    pc = "returned" => (ret <=> Markers \subseteq TypedSet)

\* C9 witness: all six markers are present, not in the order of the list, and
\* the call returned true.
C9_Witness ==
    /\ pc = "returned"
    /\ ret = TRUE
    /\ typed[1] = H_Confidence
    /\ typed[6] = H_Summary

(***************************************************************************)
(* The parser harness: a judge response is put together from metric names  *)
(* in several spellings, whitespace, digits and filler, and handed to one  *)
(* of the three parsers; metric records which one.                         *)
(***************************************************************************)
JudgeFragments ==
    { <<"h", "e", "l", "p", "f", "u", "l", "n", "e", "s", "s">>, <<"T", "o", "x", "i", "c", "i", "t", "y">>, <<"H", "A", "R", "S", "H", "N", "E", "S", "S">>,
      <<":">>, <<" ">>, <<"\n">>, <<"1">>, <<"0">>, <<"5">>, <<"9">>, <<"o", "k">> }

ParserInit ==
    /\ pc = "typing"
    /\ text = <<>>
    /\ typed = <<>>
    /\ metric = "none"
    /\ min_w = 0
    /\ max_w = 0
    /\ JudgeIdle
    /\ ReviewIdle
    /\ faults = 0
    /\ QcIdle
    /\ frames = <<>>
    /\ ret = <<>>

TypeResponse ==
    /\ pc = "typing"
    /\ Len(typed) < MaxJudgeTyped
    /\ \E f \in JudgeFragments :
          /\ typed' = Append(typed, f)
          /\ text' = text \o f
    /\ UNCHANGED <<pc, metric, min_w, max_w, ret, judgeVars, reviewVars, faults, qcVars, frames>>

CallParse ==
    /\ pc = "typing"
    /\ \E m \in MetricNames :
          /\ metric' = m
          /\ ret' = Parse(m, text)
    /\ pc' = "returned"
    /\ UNCHANGED <<text, typed, min_w, max_w, judgeVars, reviewVars, faults, qcVars, frames>>

ParserNext == TypeResponse \/ CallParse

SpecParser == ParserInit /\ [][ParserNext]_vars

\* The integer written in t from position i on: the value of the longest run of
\* digits that starts there (acc is the value read so far).
RECURSIVE IntegerAt(_, _, _)
IntegerAt(t, i, acc) ==
    IF i <= Len(t) /\ IsDigit(t[i])
    THEN IntegerAt(t, i + 1, 10 * acc + DigitValue(t[i]))
    ELSE acc

\* The positions of t where the pattern stands: the metric name (in any
\* letter case), a colon, optional whitespace and a digit from 1 to 7.
WrittenScores(t, name) ==
    {i \in 1..Len(t) :
        /\ NameAt(t, name, i)
        /\ GroupPos(t, name, i) <= Len(t)
        /\ t[GroupPos(t, name, i)] \in {"1", "2", "3", "4", "5", "6", "7"}}

\* C10: a parser returns a score exactly when the response holds the pattern,
\* anywhere and in any letter case; the score is then the integer the judge
\* wrote after the metric name (all of its digits), and it lies in 1..7;
\* otherwise the score is null.
C10_ScoreIsWrittenInteger ==
    pc = "returned" =>
        LET name == NameOf(metric)
            score == ret[1]
            W == WrittenScores(text, name)
        IN  /\ score # PyNone <=> W # {}
            /\ score # PyNone =>
                  /\ score.t = "int"
                  /\ score.n \in 1..7
                  /\ score.n = IntegerAt(text, GroupPos(text, name, Min(W)), 0)

\* Everything after the first line break of t, and the empty string when t
\* has no line break.
AfterFirstBreak(t) ==
    LET nl == {i \in 1..Len(t) : t[i] = "\n"}
    IN  IF nl = {} THEN <<>> ELSE SubSeq(t, Min(nl) + 1, Len(t))

\* C11: the rationale a parser returns is everything after the first line
\* break of the text it was given, and the empty string when the text has no
\* line break; a text without the score pattern and without a line break
\* yields (None, "").
C11_RationaleAfterFirstBreak ==
    pc = "returned" =>
        /\ ret[2] = AfterFirstBreak(text)
        /\ (WrittenScores(text, NameOf(metric)) = {} /\ AfterFirstBreak(text) = <<>>)
              => ret = <<PyNone, <<>>>>

(***************************************************************************)
(* The judge harness: a caller asks the judge client for one score.        *)
(***************************************************************************)
JudgeInit ==
    /\ pc = "caller"
    /\ text = <<>>
    /\ typed = <<>>
    /\ metric = "none"
    /\ min_w = 0
    /\ max_w = 0
    /\ ret = PyNone
    /\ JudgeIdle
    /\ ReviewIdle
    /\ faults = 0
    /\ QcIdle
    /\ frames = <<>>

CallScore ==
    /\ pc = "caller"
    /\ \E m \in MetricNames : EnterScoreWithRetries(m, <<>>)
    /\ pc' = "waiting"
    /\ UNCHANGED <<text, typed, min_w, max_w, ret, reviewVars, faults, qcVars, frames>>

JudgeNext == CallScore \/ JudgeAttempt

SpecJudge == JudgeInit /\ [][JudgeNext]_vars

\* The attempts (positions in calls) whose response parses to an integer 1..7.
ParsingAttempts ==
    {k \in 1..Len(calls) :
        /\ calls[k].kind = "response"
        /\ Parse(metric, calls[k].content)[1] # PyNone
        /\ Parse(metric, calls[k].content)[1].n \in 1..7}

\* C5: _score_with_retries makes at most 3 attempts, returns the score of the
\* first attempt whose response parses to an integer in 1..7, returns the
\* default 4 when none of the 3 attempts does, and never raises.
C5_RetryThenDefault ==
    /\ Len(calls) <= 3
    /\ jpc # "raised"
    /\ jpc = "returned" =>
          IF ParsingAttempts # {}
          THEN /\ Len(calls) = Min(ParsingAttempts)
               /\ ret = Parse(metric, calls[Len(calls)].content)[1]
          ELSE /\ Len(calls) = 3
               /\ ret = PyInt(4)

\* C5 witness: two attempts failed, one by an exception and one by an
\* unparseable answer, and the third gave the score.
C5_Witness ==
    /\ jpc = "returned"
    /\ Len(calls) = 3
    /\ calls[1].kind = "raise"
    /\ calls[2].kind = "response"
    /\ ParsingAttempts = {3}

(***************************************************************************)
(* The validation harness: a caller holds one record, and the messages the *)
(* schema validator has for it, and calls validate_full20 or extra_checks  *)
(* once.                                                                   *)
(***************************************************************************)
ToxicityValues ==
    {PyNone, PyMissing, PyInt(4), PyInt(5), PyInt(6), PyBool(TRUE), PyFloat(5),
     PyStr(<<"5">>)}
FlagValues == {PyBool(TRUE), PyBool(FALSE), PyNone, PyInt(1), PyMissing}
ReviewTextValues == {PyStr(<<>>), PyStr(<<" ", "\n">>), PyStr(<<"o", "k">>), PyNone}
WordCountValues ==
    {PyInt(0), PyInt(599), PyInt(600), PyInt(800), PyInt(801), PyNone,
     PyFloat(700), PyBool(TRUE), PyStr(<<"7", "0", "0">>)}

E_Required == <<"'notes' is a required property">>
E_Enum == <<"'mean' is not one of ['praise', 'neutral', 'harsh']">>
SchemaErrorLists == {<<>>, <<E_Enum>>, <<E_Required, E_Enum>>}

ValidateInit ==
    /\ pc = "caller"
    /\ text = <<>>
    /\ typed = <<>>
    /\ metric = "none"
    /\ min_w = 0
    /\ max_w = 0
    /\ ret = PyNone
    /\ JudgeIdle
    /\ ReviewIdle
    /\ faults = 0
    /\ \E tox \in ToxicityValues, flag \in FlagValues, rt \in ReviewTextValues,
          count \in WordCountValues :
          obj = [make_full20_stub(P_Foo, paper_id_from_title(T_Foo), A_neutral, <<"pilot001">>)
                    EXCEPT !.toxicity_1to7 = tox,
                           !.toxicity_flag_tau5 = flag,
                           !.review_text = rt,
                           !.word_count = count]
    /\ schema_errors \in SchemaErrorLists
    /\ frames = <<>>

CallValidateFull20 ==
    /\ pc = "caller"
    /\ ret' = validate_full20(obj, schema_errors)
    /\ pc' = "validate_full20_returned"
    /\ UNCHANGED <<inputVars, metric, judgeVars, reviewVars, faults, qcVars, frames>>

CallExtraChecks ==
    /\ pc = "caller"
    /\ ret' = extra_checks(obj)
    /\ pc' = "extra_checks_returned"
    /\ UNCHANGED <<inputVars, metric, judgeVars, reviewVars, faults, qcVars, frames>>

ValidateNext == CallValidateFull20 \/ CallExtraChecks

SpecValidate == ValidateInit /\ [][ValidateNext]_vars

\* A validator has returned its list.
Validated == pc \in {"validate_full20_returned", "extra_checks_returned"}

\* The returned list holds the toxicity message of the validator called.
ToxicityReported ==
    \E k \in 1..Len(ret) :
        IF pc = "validate_full20_returned"
        THEN ret[k] = <<"toxicity_flag_tau5 inconsistent with toxicity_1to7">>
        ELSE Head(ret[k]) = "toxicity_flag_tau5 mismatch (tox="

\* The returned list holds the word-count message of the validator called.
WordCountReported ==
    \E k \in 1..Len(ret) :
        IF pc = "validate_full20_returned"
        THEN ret[k] = <<"word_count must be in [600, 800] for non-empty review_text">>
        ELSE Head(ret[k]) = "word_count "

\* C6: for a record whose toxicity_1to7 is an integer, either validator
\* reports the toxicity inconsistency exactly when toxicity_flag_tau5 is not
\* the boolean (toxicity_1to7 >= 5); 6 with False is reported; nothing is
\* reported when toxicity_1to7 is null or absent.
C6_ToxicityErrorIffMismatch ==
    Validated =>
        LET tox == obj.toxicity_1to7
            flag == obj.toxicity_flag_tau5
        IN  /\ tox.t = "int" =>
                  (ToxicityReported <=> flag # PyBool(tox.n >= 5))
            /\ (tox = PyInt(6) /\ flag = PyBool(FALSE)) => ToxicityReported
            /\ tox \in {PyNone, PyMissing} => ~ToxicityReported

\* validate_full20 reports toxicity 6 flagged False among schema errors.
C6_Witness ==
    /\ pc = "validate_full20_returned"
    /\ obj.toxicity_1to7 = PyInt(6)
    /\ obj.toxicity_flag_tau5 = PyBool(FALSE)
    /\ schema_errors # <<>>
    /\ ToxicityReported

\* review_text is a string that holds more than whitespace.
NonEmptyReviewText ==
    /\ obj.review_text.t = "str"
    /\ \E i \in 1..Len(obj.review_text.s) : obj.review_text.s[i] \notin {" ", "\n"}

\* C7: when review_text is a non-empty string, either validator reports the
\* word count exactly when word_count is not an integer in 600..800, so 599
\* and 801 are rejected and 600 and 800 pass the rule; when review_text is
\* empty or only whitespace, the word count is never reported.
C7_WordCountBoundaries ==
    Validated =>
        LET count == obj.word_count
        IN  /\ NonEmptyReviewText =>
                  (WordCountReported <=>
                      ~(count.t = "int" /\ 600 <= count.n /\ count.n <= 800))
            /\ (NonEmptyReviewText /\ count \in {PyInt(599), PyInt(801)}) =>
                  (WordCountReported /\ ret # <<>>)
            /\ (NonEmptyReviewText /\ count \in {PyInt(600), PyInt(800)}) =>
                  ~WordCountReported
            /\ (obj.review_text.t = "str" /\ ~NonEmptyReviewText) => ~WordCountReported

\* validate_full20 accepts a record of 600 words at the lower edge.
C7_Witness ==
    /\ pc = "validate_full20_returned"
    /\ NonEmptyReviewText
    /\ obj.word_count = PyInt(600)
    /\ obj.toxicity_1to7 = PyInt(5)
    /\ ret = <<>>

\* Rule a is violated: toxicity_1to7 is an integer (for Python a bool is one)
\* and toxicity_flag_tau5 is not the boolean (toxicity_1to7 >= 5).
FlagRuleViolated ==
    /\ obj.toxicity_1to7.t \in {"int", "bool"}
    /\ obj.toxicity_flag_tau5 # PyBool(obj.toxicity_1to7.n >= 5)

\* Rule b is violated: review_text is not empty and word_count is not an
\* integer in 600..800.
CountRuleViolated ==
    /\ NonEmptyReviewText
    /\ ~(obj.word_count.t = "int" /\ obj.word_count.n \in 600..800)

\* C8: the list validate_full20 returns begins with every schema error, in
\* order, and goes on with one message for each violated business rule and
\* nothing else; each rule is reported exactly when it is violated, schema
\* errors or not; the list is empty exactly when nothing is violated.
C8_AllErrorsCollected ==
    pc = "validate_full20_returned" =>
        LET n == Len(schema_errors)
            violated == (IF FlagRuleViolated THEN 1 ELSE 0)
                            + (IF CountRuleViolated THEN 1 ELSE 0)
        IN  /\ Len(ret) = n + violated
            /\ \A k \in 1..n : ret[k] = schema_errors[k]
            /\ FlagRuleViolated <=> ToxicityReported
            /\ CountRuleViolated <=> WordCountReported
            /\ ret = <<>> <=> (n = 0 /\ ~FlagRuleViolated /\ ~CountRuleViolated)

\* Two schema errors and both business rules violated: four messages.
C8_Witness ==
    /\ pc = "validate_full20_returned"
    /\ Len(schema_errors) = 2
    /\ FlagRuleViolated
    /\ CountRuleViolated
    /\ Len(ret) = 4

(***************************************************************************)
(* The qc harness: a file of up to MaxQcLines records, stubs and others,   *)
(* is handed to the qc command; log is the file.                           *)
(***************************************************************************)
MaxQcLines == 2

StubRecords ==
    {make_full20_stub(p, paper_id_from_title(p.paper_title), arm, rid) :
        p \in {P_Foo, P_Bar}, arm \in {A_praise, A_mean}, rid \in RunIds}

Stub0 == make_full20_stub(P_Foo, paper_id_from_title(T_Foo), A_neutral, <<"pilot001">>)
OtherRecords ==
    {[Stub0 EXCEPT !.review_text = PyStr(<<"o", "k">>), !.word_count = PyInt(700)],
     [Stub0 EXCEPT !.review_text = PyStr(<<"o", "k">>), !.word_count = PyInt(12)],
     [Stub0 EXCEPT !.review_text = PyStr(<<"o", "k">>), !.word_count = PyNone],
     [Stub0 EXCEPT !.toxicity_1to7 = PyMissing]}

QcFiles ==
    UNION {[1..n -> StubRecords \cup OtherRecords] : n \in 1..MaxQcLines}

QcInit ==
    /\ pc = "qc_start"
    /\ text = <<>>
    /\ typed = <<>>
    /\ metric = "none"
    /\ min_w = 0
    /\ max_w = 0
    /\ ret = PyNone
    /\ JudgeIdle
    /\ rows = <<>>
    /\ run_id = <<>>
    /\ arm_list = <<>>
    /\ paper_idx = 0
    /\ arm_idx = 0
    /\ pid = <<>>
    /\ content = Unset
    /\ ArmIdle
    /\ log \in QcFiles
    /\ results = <<>>
    /\ faults = 0
    /\ QcIdle
    /\ frames = <<>>

CallQc ==
    /\ pc = "qc_start"
    /\ ret' = qc(log)
    /\ pc' = "qc_returned"
    /\ UNCHANGED <<inputVars, metric, judgeVars, reviewVars, faults, qcVars, frames>>

QcNext == CallQc

SpecQc == QcInit /\ [][QcNext]_vars

\* C16: every stub record passes validation: neither business rule of
\* validate_full20 or of extra_checks reports an error for it, its keys are
\* exactly the 20 required keys, and the qc command exits with code 0 on a
\* file made only of stub records.
C16_StubsPassValidation ==
    /\ \A k \in 1..Len(log) :
          log[k] \in StubRecords =>
              /\ Keys(log[k]) = required_keys
              /\ Cardinality(Keys(log[k])) = 20
              /\ ExtraRules(log[k]) = <<>>
              /\ extra_checks(log[k]) = <<>>
    /\ (pc = "qc_returned" /\ \A k \in 1..Len(log) : log[k] \in StubRecords)
          => ret = Returned(PyInt(0))

\* C16 witness: the command has passed a file of two different stub records.
C16_Witness ==
    /\ pc = "qc_returned"
    /\ Len(log) = 2
    /\ log[1] \in StubRecords
    /\ log[2] \in StubRecords
    /\ log[1] # log[2]
    /\ ret = Returned(PyInt(0))

(***************************************************************************)
(* scripts/validate_jsonl.py: iter_jsonl and main.  A line of the file is  *)
(* blank, is no JSON, or holds a record; the messages the schema validator *)
(* has for a record travel with the line.                                  *)
(***************************************************************************)
\* The number of the first line json.loads rejects, Len(file) + 1 for none:
\* iter_jsonl raises SystemExit there, and main ends with it.
FirstInvalid(file) ==
    LET bad == {i \in 1..Len(file) : file[i].kind = "invalid"}
    IN  IF bad = {} THEN Len(file) + 1 ELSE Min(bad)

\* What the loop of main prints for the lines from to upto: an entry, with
\* its line number, for every record that has schema errors or rule errors.
RECURSIVE Reports(_, _, _)
Reports(file, from, upto) ==
    IF from > upto THEN <<>>
    ELSE LET l == file[from]
             xerrors == extra_checks(l.obj)
         IN  (IF l.kind = "json" /\ (l.schema # <<>> \/ xerrors # <<>>)
              THEN <<[line |-> from, schema |-> l.schema, rule |-> xerrors]>>
              ELSE <<>>) \o Reports(file, from + 1, upto)

\* main(): the lines printed for failing records, the summary
\* <<failures, total>> (none when iter_jsonl has ended the run) and the exit
\* code.
main(file) ==
    LET p == FirstInvalid(file)
        printed == Reports(file, 1, p - 1)
        total == Cardinality({i \in 1..(p - 1) : file[i].kind = "json"})
    IN  IF p <= Len(file)
        THEN [printed |-> printed, summary |-> <<>>, code |-> 1]
        ELSE [printed |-> printed, summary |-> <<Len(printed), total>>,
              code |-> IF Len(printed) > 0 THEN 1 ELSE 0]

(***************************************************************************)
(* The batch harness: a file of up to MaxBatchLines lines is handed to     *)
(* validate_jsonl.py; log is the file.                                     *)
(***************************************************************************)
MaxBatchLines == 3

L_Blank == [kind |-> "blank", obj |-> PyNone, schema |-> <<>>]
L_Invalid == [kind |-> "invalid", obj |-> PyNone, schema |-> <<>>]
L_Good == [kind |-> "json", obj |-> Stub0, schema |-> <<>>]
L_FlagWrong ==
    [kind |-> "json", obj |-> [Stub0 EXCEPT !.toxicity_1to7 = PyInt(6)], schema |-> <<>>]
L_ManyErrors ==
    [kind |-> "json",
     obj |-> [Stub0 EXCEPT !.toxicity_1to7 = PyInt(6),
                           !.review_text = PyStr(<<"o", "k">>),
                           !.word_count = PyInt(12),
                           !.arm = PyStr(A_mean),
                           !.notes = PyMissing],
     schema |-> <<E_Required, E_Enum>>]
BatchLines == {L_Blank, L_Invalid, L_Good, L_FlagWrong, L_ManyErrors}

BatchFiles ==
    UNION {[1..n -> BatchLines] : n \in 1..MaxBatchLines}

BatchInit ==
    /\ pc = "batch_start"
    /\ text = <<>>
    /\ typed = <<>>
    /\ metric = "none"
    /\ min_w = 0
    /\ max_w = 0
    /\ ret = PyNone
    /\ JudgeIdle
    /\ rows = <<>>
    /\ run_id = <<>>
    /\ arm_list = <<>>
    /\ paper_idx = 0
    /\ arm_idx = 0
    /\ pid = <<>>
    /\ content = Unset
    /\ ArmIdle
    /\ log \in BatchFiles
    /\ results = <<>>
    /\ faults = 0
    /\ QcIdle
    /\ frames = <<>>

CallMain ==
    /\ pc = "batch_start"
    /\ ret' = main(log)
    /\ pc' = "batch_returned"
    /\ UNCHANGED <<inputVars, metric, judgeVars, reviewVars, faults, qcVars, frames>>

BatchNext == CallMain

SpecBatch == BatchInit /\ [][BatchNext]_vars

\* The lines of the file that fail: no JSON, or a record with schema errors
\* or rule errors.
FailingLines ==
    {i \in 1..Len(log) :
        \/ log[i].kind = "invalid"
        \/ /\ log[i].kind = "json"
           /\ (log[i].schema # <<>> \/ extra_checks(log[i].obj) # <<>>)}

\* C21: a batch validation run examines every line: each failing record is
\* printed with its line number and all of its schema and rule errors, also
\* when it comes after another bad line; a summary count of failures and
\* lines is printed; and the exit code is non-zero exactly when a line failed.
C21_EveryFailingLineReported ==
    pc = "batch_returned" =>
        /\ \A i \in FailingLines :
              log[i].kind = "json" =>
                  \E k \in 1..Len(ret.printed) :
                      ret.printed[k] = [line |-> i, schema |-> log[i].schema,
                                        rule |-> extra_checks(log[i].obj)]
        /\ ret.summary # <<>>
        /\ ret.summary[1] = Cardinality(FailingLines)
        /\ ret.code # 0 <=> FailingLines # {}

(***************************************************************************)
(* Concurrent callers of the core.  Each caller is in at most one call;    *)
(* the locals of a call live in the frame of the call.  enforce_window is  *)
(* taken statement by statement (its list out is filled in a loop), the    *)
(* other functions are single expressions over their arguments and the     *)
(* compiled patterns of their modules, which nothing writes.               *)
(***************************************************************************)
MaxCallers == 2

Callers == 1..MaxCallers

CoreFns ==
    {"enforce_window", "validate_structure", "parse_toxicity",
     "paper_id_from_title", "build_review_prompt", "validate_full20"}

\* The argument tuples the callers use.
ArgsOf(fn) ==
    CASE fn = "enforce_window" ->
            {<<t, 1, 2>> : t \in {<<"a", ".", " ", "a", ".", " ", "a">>,
                                  <<"a", " ", "a", " ", "a">>,
                                  <<"a", ".">>}}
      [] fn = "validate_structure" -> {<<RC_Full>>, <<RC_Short>>}
      [] fn = "parse_toxicity" -> {<<R_AllThree>>}
      [] fn = "paper_id_from_title" -> {<<T_Foo>>, <<T_Bar>>}
      [] fn = "build_review_prompt" -> {<<A_harsh, P_Foo, C_Paper>>, <<A_praise, P_Bar, C_Empty>>}
      [] fn = "validate_full20" -> {<<Stub0, <<>>>>}

\* The result of the call when it runs alone.
Alone(fn, args) ==
    CASE fn = "enforce_window" -> enforce_window(args[1], args[2], args[3])
      [] fn = "validate_structure" -> validate_structure(args[1])
      [] fn = "parse_toxicity" -> parse_toxicity(args[1])
      [] fn = "paper_id_from_title" -> paper_id_from_title(args[1])
      [] fn = "build_review_prompt" -> build_review_prompt(args[1], args[2], args[3])
      [] fn = "validate_full20" -> validate_full20(args[1], args[2])

IdleFrame == [pc |-> "idle", fn |-> "none", args |-> <<>>, out |-> <<>>, k |-> 0, ret |-> <<>>]

\* One list out for all calls: a module-level list in place of the local.
SharedCell(w) == 1

\* The frame that holds the list out of the call of caller w: out is a local,
\* made anew by every call.
Cell(w) == w

ConcInit ==
    /\ pc = "callers"
    /\ text = <<>>
    /\ typed = <<>>
    /\ metric = "none"
    /\ min_w = 0
    /\ max_w = 0
    /\ ret = PyNone
    /\ JudgeIdle
    /\ ReviewIdle
    /\ faults = 0
    /\ obj = PyNone
    /\ schema_errors = <<>>
    /\ frames = [w \in Callers |-> IdleFrame]

\* A caller makes a call.
Enter(w) ==
    /\ frames[w].pc = "idle"
    /\ \E fn \in CoreFns : \E a \in ArgsOf(fn) :
          frames' = [frames EXCEPT ![w].pc = IF fn = "enforce_window" THEN "ew_entry" ELSE "expression",
                                   ![w].fn = fn,
                                   ![w].args = a]

\* A function that is one expression returns its value.
Evaluate(w) ==
    /\ frames[w].pc = "expression"
    /\ frames' = [frames EXCEPT ![w].ret = Alone(frames[w].fn, frames[w].args),
                                ![w].pc = "returned"]

\* enforce_window up to the loop: the three early returns, out = [].
EwEntry(w) ==
    /\ frames[w].pc = "ew_entry"
    /\ LET t == frames[w].args[1]
           count == word_count(t)
       IN  IF count = 0 \/ count < frames[w].args[2] \/ count <= frames[w].args[3]
           THEN frames' = [frames EXCEPT ![w].ret = t, ![w].pc = "returned"]
           ELSE frames' = [frames EXCEPT ![w].pc = "ew_loop", ![w].k = 1,
                                         ![Cell(w)].out = <<>>]

\* One pass of the for loop over the sentences.
EwLoop(w) ==
    /\ frames[w].pc = "ew_loop"
    /\ LET sentences == sentence_split(frames[w].args[1])
           k == frames[w].k
           out == frames[Cell(w)].out
       IN  IF k > Len(sentences)
           THEN frames' = [frames EXCEPT ![w].pc = "ew_after"]
           ELSE IF word_count(Strip(Join(Append(out, sentences[k]), <<" ">>))) <= frames[w].args[3]
           THEN frames' = [frames EXCEPT ![w].k = k + 1,
                                         ![Cell(w)].out = Append(out, sentences[k])]
           ELSE frames' = [frames EXCEPT ![w].pc = "ew_after"]

\* After the loop: the joined sentences, or the hard token trim.
EwReturn(w) ==
    /\ frames[w].pc = "ew_after"
    /\ LET truncated == Strip(Join(frames[Cell(w)].out, <<" ">>))
       IN  frames' = [frames EXCEPT
                         ![w].ret = IF truncated = <<>>
                                    THEN hard_trim(frames[w].args[1], frames[w].args[3])
                                    ELSE truncated,
                         ![w].pc = "returned"]

\* The caller has the result and is free for the next call.
Leave(w) ==
    /\ frames[w].pc = "returned"
    /\ frames' = [frames EXCEPT ![w] = IdleFrame]

ConcNext ==
    /\ pc = "callers"
    /\ \E w \in Callers :
          Enter(w) \/ Evaluate(w) \/ EwEntry(w) \/ EwLoop(w) \/ EwReturn(w) \/ Leave(w)
    /\ UNCHANGED <<pc, inputVars, metric, ret, judgeVars, reviewVars, faults, qcVars>>

SpecConc == ConcInit /\ [][ConcNext]_vars

\* C22: under any interleaving of the calls of several callers, a call that
\* has returned has the result it has when it runs alone on its arguments,
\* and no step of any call changes the arguments of a call that is under way.
C22_CallsIndependent ==
    [][\A w \in Callers :
          /\ (frames[w].pc \notin {"idle", "returned"}) => frames'[w].args = frames[w].args
          /\ frames'[w].pc = "returned" =>
                frames'[w].ret = Alone(frames'[w].fn, frames'[w].args)]_vars

\* C22 witness: an enforce_window call returns its truncated text while the
\* other caller is inside the loop of another enforce_window call.
C22_Witness ==
    /\ frames[1].pc = "returned"
    /\ frames[1].fn = "enforce_window"
    /\ frames[1].ret # frames[1].args[1]
    /\ frames[2].pc = "ew_loop"
    /\ frames[2].k > 1
    /\ frames[2].args # frames[1].args

====
